---- MODULE Spec2Model ----
(***************************************************************************)
(* Supply-chain forecasting tool: the Forecaster (utils/forecasting.ts)    *)
(* and the BacktestEngine (App.tsx, backtestResults) as state machines.    *)
(*                                                                         *)
(* Numbers.  A JavaScript number that may carry a fraction is held in      *)
(* fixed point: the integer x stands for x / Scale.  Quantities, counts,   *)
(* indices and the results of Math.round are plain integers, as they are   *)
(* integral in the program.  Sums and products of integers are computed    *)
(* exactly, as IEEE doubles compute them.                                  *)
(*                                                                         *)
(* Dates.  A date string 'YYYY-MM-DD' is the record [y, m, d]; a Date      *)
(* object is its time value, counted in hours since 1970-01-01T00:00Z.     *)
(* The local-time methods of Date (setDate, setMonth, getMonth, the        *)
(* multi-argument constructor) read the time zone of the environment, the  *)
(* variable tz (hours east of UTC); toISOString and the parsing of a       *)
(* date-only string are in UTC.                                            *)
(***************************************************************************)
EXTENDS Integers, Sequences, FiniteSets, TLC

\* ------------------------------------------------------------------------
\* Fixed-point arithmetic for the type `number`
\* ------------------------------------------------------------------------
Scale == 10^4

Num(i) == i * Scale

Dec(n, d) == (n * Scale) \div d

Abs(x) == IF x < 0 THEN -x ELSE x

Sgn(x) == IF x < 0 THEN -1 ELSE 1

Max(a, b) == IF a >= b THEN a ELSE b

Min(a, b) == IF a <= b THEN a ELSE b

MulAbs(a, b) ==
  LET ah == a \div Scale
      al == a % Scale
      bh == b \div Scale
      bl == b % Scale
  IN  ah * bh * Scale + ah * bl + al * bh + (al * bl + Scale \div 2) \div Scale

\* x * y
Mul(x, y) == Sgn(x) * Sgn(y) * MulAbs(Abs(x), Abs(y))

RECURSIVE FracDigits(_, _, _)
FracDigits(r, b, p) ==
  IF p = 1 THEN (IF 2 * r >= b THEN 1 ELSE 0)
  ELSE LET r10 == r * 10
           p10 == p \div 10
       IN  (r10 \div b) * p10 + FracDigits(r10 % b, b, p10)

DivAbs(a, b) == (a \div b) * Scale + FracDigits(a % b, b, Scale)

\* x / y for fixed-point x, y (y # 0); also a / b for two integers
Div(x, y) == Sgn(x) * Sgn(y) * DivAbs(Abs(x), Abs(y))

\* x / k and x * k for fixed-point x and an integer k
DivI(x, k) == Sgn(x) * Sgn(k) * ((2 * Abs(x) + Abs(k)) \div (2 * Abs(k)))

MulI(x, k) == x * k

\* the largest r = base + d * step, d in 0 .. 35, with r * r <= n
ISqrtRefine(n, base, step) ==
  base + step * (CHOOSE d \in 0..35 :
                   LET r == base + d * step
                       next == r + step
                   IN  /\ (r = 0 \/ r <= n \div r)
                       /\ (d = 35 \/ next > n \div next))

\* the integer square root, digit by digit in base 36
ISqrt(n) ==
  IF n <= 0 THEN 0
  ELSE ISqrtRefine(n, ISqrtRefine(n, ISqrtRefine(n, 0, 1296), 36), 1)

MaxInt == (2^30 - 1) * 2 + 1

\* Math.sqrt(x)
Sqrt(x) ==
  IF x <= MaxInt \div Scale THEN ISqrt(x * Scale)
  ELSE IF x <= MaxInt \div 100 THEN ISqrt(x * 100) * (ISqrt(Scale) \div 10)
  ELSE ISqrt(x) * ISqrt(Scale)

\* Math.round(x): the integer nearest to x, halves toward +infinity
Round(x) == (2 * x + Scale) \div (2 * Scale)

\* Math.ceil(a / b) for integers a >= 0, b > 0
CeilDiv(a, b) == (a + b - 1) \div b

\* x || 1 and x || 0: a falsy number (0) is replaced
OrOne(x) == IF x = 0 THEN Num(1) ELSE x

\* the sum of s[lo .. hi]
RECURSIVE SumRange(_, _, _)
SumRange(s, lo, hi) ==
  IF lo > hi THEN 0
  ELSE IF lo = hi THEN s[lo]
  ELSE LET mid == (lo + hi) \div 2
       IN  SumRange(s, lo, mid) + SumRange(s, mid + 1, hi)

\* s.reduce((a, b) => a + b, 0)
SumSeq(s) == SumRange(s, 1, Len(s))

\* ------------------------------------------------------------------------
\* Calendar: date strings and Date objects
\* ------------------------------------------------------------------------
DateOf(y, m, d) == [y |-> y, m |-> m, d |-> d]

\* a.localeCompare(b) <= 0 and the string comparisons of ISO dates
DateLE(a, b) ==
  \/ a.y < b.y
  \/ a.y = b.y /\ a.m < b.m
  \/ a.y = b.y /\ a.m = b.m /\ a.d <= b.d

DateLT(a, b) == DateLE(a, b) /\ a # b

\* days since 1970-01-01 of the civil date (y, m, d)
DaysFromCivil(y, m, d) ==
  LET yy  == IF m <= 2 THEN y - 1 ELSE y
      era == yy \div 400
      yoe == yy - era * 400
      mp  == IF m > 2 THEN m - 3 ELSE m + 9
      doy == (153 * mp + 2) \div 5 + d - 1
      doe == yoe * 365 + yoe \div 4 - yoe \div 100 + doy
  IN  era * 146097 + doe - 719468

CivilFromDays(n) ==
  LET z   == n + 719468
      era == z \div 146097
      doe == z - era * 146097
      yoe == (doe - doe \div 1460 + doe \div 36524 - doe \div 146096) \div 365
      doy == doe - (365 * yoe + yoe \div 4 - yoe \div 100)
      mp  == (5 * doy + 2) \div 153
      d   == doy - (153 * mp + 2) \div 5 + 1
      m   == IF mp < 10 THEN mp + 3 ELSE mp - 9
      y   == yoe + era * 400 + (IF m <= 2 THEN 1 ELSE 0)
  IN  DateOf(y, m, d)

HoursPerDay == 24

\* new Date('YYYY-MM-DD').getTime(): the date at 00:00 UTC
ParseDate(date) == DaysFromCivil(date.y, date.m, date.d) * HoursPerDay

\* the calendar fields of time value t in the zone `zone` hours east of UTC
\* (y: year, m: month 1 .. 12, d: day, h: hour)
FieldsOf(t, zone) ==
  CivilFromDays((t + zone) \div HoursPerDay)
  @@ [h |-> (t + zone) % HoursPerDay]

\* new Date(y, m - 1, d, h) in the zone, for the fields f: the month and
\* the day may overflow
MakeTime(f, zone) ==
  LET yy == f.y + (f.m - 1) \div 12
      mm == (f.m - 1) % 12
  IN  (DaysFromCivil(yy, mm + 1, 1) + f.d - 1) * HoursPerDay + f.h - zone

\* date.setDate(day)
SetDate(t, day, zone) ==
  MakeTime([FieldsOf(t, zone) EXCEPT !.d = day], zone)

\* date.getMonth(): the month index 0 .. 11
GetMonth(t, zone) == FieldsOf(t, zone).m - 1

\* date.setMonth(mi)
SetMonth(t, mi, zone) ==
  MakeTime([FieldsOf(t, zone) EXCEPT !.m = mi + 1], zone)

\* date.toISOString().split('T')[0]
ISODate(t) == CivilFromDays(t \div HoursPerDay)

\* isoDate.substring(0, 7) + '-01'
FirstOfMonth(date) == DateOf(date.y, date.m, 1)

\* normalizeDateFormat(dateStr) of a well-formed 'YYYY-MM-DD' string
normalizeDateFormat(date) == DateOf(date.y, date.m, 1)

\* ------------------------------------------------------------------------
\* utils/forecasting.ts: statistics helpers
\* ------------------------------------------------------------------------
\* values.reduce((a, b) => a + b, 0) / n
MeanOf(values) == Div(SumSeq(values), Len(values))

\* values.reduce((a, b) => a + Math.pow(b - mean, 2), 0)
SumSqDev(values, mean) ==
  SumSeq([i \in 1..Len(values) |->
            LET dv == Num(values[i]) - mean IN Mul(dv, dv)])

getStdDev(values) ==
  LET n == Len(values)
  IN  IF n = 0 THEN 0
      ELSE Sqrt(DivI(SumSqDev(values, MeanOf(values)), n))

getZMultiplier(conf) ==
  IF conf >= 99 THEN Dec(2576, 1000)
  ELSE IF conf >= 95 THEN Dec(196, 100)
  ELSE IF conf >= 90 THEN Dec(1645, 1000)
  ELSE IF conf >= 85 THEN Dec(144, 100)
  ELSE IF conf >= 80 THEN Dec(128, 100)
  ELSE Dec(196, 100)

\* the regression sums over i = 0 .. n-1 (values is 1-indexed here)
SumX(n) == SumSeq([i \in 1..n |-> i - 1])

SumXX(n) == SumSeq([i \in 1..n |-> (i - 1) * (i - 1)])

SumXY(values, n) == SumSeq([i \in 1..n |-> (i - 1) * values[i]])

\* (n * sumXY - sumX * sumY) / (n * sumXX - sumX * sumX)
RegressionSlope(values) ==
  LET n == Len(values)
  IN  Div(n * SumXY(values, n) - SumX(n) * SumSeq(values),
          n * SumXX(n) - SumX(n) * SumX(n))

CountSparseFlipped(early, threshold) ==
  Cardinality({i \in 1..Len(early) :
                 early[i] = 0 \/ Num(early[i]) >= threshold})

CountSparse(early, threshold) ==
  Cardinality({i \in 1..Len(early) :
                 early[i] = 0 \/ Num(early[i]) < threshold})

detectHWMethod(values) ==
  IF Len(values) < 4 THEN "multiplicative"
  ELSE
    LET n == Len(values)
        mean == MeanOf(values)
        stdDev == getStdDev(values)
        cv == IF mean > 0 THEN Div(stdDev, mean) ELSE 0
        earlyDataSize == CeilDiv(n, 4)
        earlyValues == SubSeq(values, 1, earlyDataSize)
        lowValueThreshold == Mul(mean, Dec(2, 10))
        sparseCount == CountSparse(earlyValues, lowValueThreshold)
        earlySparsity == IF Len(earlyValues) > 0
                         THEN Div(sparseCount, Len(earlyValues)) ELSE 0
        slope == RegressionSlope(values)
        trendStrength == Div(Abs(slope), IF mean > 0 THEN mean ELSE Num(1))
    IN  IF cv > Dec(5, 10) \/ earlySparsity > Dec(4, 10)
           \/ trendStrength > Dec(5, 100)
        THEN "additive"
        ELSE "multiplicative"

\* ------------------------------------------------------------------------
\* utils/forecasting.ts: the forecasting methods.  Each returns the
\* sequence of `horizon` raw forecast values (fixed point).
\* ------------------------------------------------------------------------
alpha == Dec(3, 10)

beta == Dec(1, 10)

gamma == Dec(5, 100)

SeasonLength == 12

\* one pass of the smoothing loop: the state (level, trend, seasonal) after
\* pass i, from the state st before it
HWAddStep(values, i, L, st) ==
  LET value == Num(values[i + 1])
      level == Mul(alpha, value - st.seasonal[i % L])
               + Mul(Num(1) - alpha, st.level + st.trend)
      trend == Mul(beta, level - st.level) + Mul(Num(1) - beta, st.trend)
      seas  == Mul(gamma, value - level)
               + Mul(Num(1) - gamma, st.seasonal[i % L])
  IN  [level |-> level, trend |-> trend,
       seasonal |-> [st.seasonal EXCEPT ![i % L] = seas]]

\* the passes lo .. hi of the loop in order, from the state st; the state
\* after pass mid is computed before pass mid + 1 starts
RECURSIVE HWAddLoop(_, _, _, _, _)
HWAddLoop(values, lo, hi, L, st) ==
  IF lo > hi THEN st
  ELSE IF lo = hi THEN HWAddStep(values, lo, L, st)
  ELSE LET mid == (lo + hi) \div 2
           left == HWAddLoop(values, lo, mid, L, st)
       IN  IF left.level = left.level
           THEN HWAddLoop(values, mid + 1, hi, L, left)
           ELSE left

runHoltWintersAdditive(values, horizon, L) ==
  LET n == Len(values)
      level0 == OrOne(MeanOf(values))
      seasonal0 == [i \in 0..(L - 1) |->
                      IF i < Min(L, n) THEN Num(values[i + 1]) - level0 ELSE 0]
      st == HWAddLoop(values, 0, n - 1, L,
                      [level |-> level0, trend |-> 0, seasonal |-> seasonal0])
  IN  [i \in 1..horizon |->
         Max(0, st.level + MulI(st.trend, i) + st.seasonal[(n + i - 1) % L])]

HWMulStep(values, i, L, st) ==
  LET value == Num(values[i + 1])
      level == Mul(alpha, Div(value, OrOne(st.seasonal[i % L])))
               + Mul(Num(1) - alpha, st.level + st.trend)
      trend == Mul(beta, level - st.level) + Mul(Num(1) - beta, st.trend)
      seas  == Mul(gamma, Div(value, OrOne(level)))
               + Mul(Num(1) - gamma, st.seasonal[i % L])
  IN  [level |-> level, trend |-> trend,
       seasonal |-> [st.seasonal EXCEPT ![i % L] = seas]]

RECURSIVE HWMulLoop(_, _, _, _, _)
HWMulLoop(values, lo, hi, L, st) ==
  IF lo > hi THEN st
  ELSE IF lo = hi THEN HWMulStep(values, lo, L, st)
  ELSE LET mid == (lo + hi) \div 2
           left == HWMulLoop(values, lo, mid, L, st)
       IN  IF left.level = left.level
           THEN HWMulLoop(values, mid + 1, hi, L, left)
           ELSE left

runHoltWintersMultiplicative(values, horizon, L) ==
  LET n == Len(values)
      initPeriod == Min(L, n)
      level0 == OrOne(Div(SumSeq(SubSeq(values, 1, initPeriod)), initPeriod))
      trend0 == IF Min(L, n - 1) = 0 THEN 0
                ELSE Div(values[Min(L - 1, n - 1) + 1] - values[1],
                         Min(L, n - 1))
      seasonal0 == [i \in 0..(L - 1) |->
                      IF i < initPeriod THEN Div(Num(values[i + 1]), level0)
                      ELSE Num(1)]
      st == HWMulLoop(values, 0, n - 1, L,
                      [level |-> level0, trend |-> trend0,
                       seasonal |-> seasonal0])
  IN  [i \in 1..horizon |->
         Max(0, Mul(st.level + MulI(st.trend, i),
                    st.seasonal[(n + i - 1) % L]))]

runHoltWinters(values, horizon, L, method) ==
  IF method = "additive"
  THEN runHoltWintersAdditive(values, horizon, L)
  ELSE runHoltWintersMultiplicative(values, horizon, L)

\* seasonal[p] after the first loop: the sum of values[i] - mean over the
\* indices i with i % L = p
SumResiduals(values, mean, p, L) ==
  SumSeq([j \in 1..Len(values) |->
            IF (j - 1) % L = p THEN Num(values[j]) - mean ELSE 0])

\* seasonal[p] after both loops of runProphet
ProphetSeasonal(values, p) ==
  LET n == Len(values)
      L == SeasonLength
  IN  DivI(SumResiduals(values, MeanOf(values), p, L), CeilDiv(n, L))

runProphet(values, horizon) ==
  LET n == Len(values)
      avgGrowth == Div(values[n] - values[1], n)
      mean == MeanOf(values)
  IN  [i \in 1..horizon |->
         LET seasonalBase == ProphetSeasonal(values, (i - 1) % 12)
             simulatedVal == seasonalBase + mean
                             + MulI(Mul(avgGrowth, Dec(12, 10)), i)
         IN  Num(Max(0, Round(simulatedVal)))]

arCoefficientUnit == Num(1)

\* const arCoefficient = 0.85
arCoefficient == Dec(85, 100)

RECURSIVE ArimaStep(_, _, _)
ArimaStep(mean, currentVal, i) ==
  IF i = 0 THEN currentVal
  ELSE mean + Mul(arCoefficient, ArimaStep(mean, currentVal, i - 1) - mean)

runArima(values, horizon) ==
  LET n == Len(values)
      mean == MeanOf(values)
  IN  [i \in 1..horizon |-> Max(0, ArimaStep(mean, Num(values[n]), i))]

runLinearNoFloor(values, horizon) ==
  LET n == Len(values)
      slope == RegressionSlope(values)
      intercept == DivI(Num(SumSeq(values)) - MulI(slope, SumX(n)), n)
  IN  [i \in 1..horizon |-> MulI(slope, n + i - 1) + intercept]

runLinear(values, horizon) ==
  LET n == Len(values)
      slope == RegressionSlope(values)
      intercept == DivI(Num(SumSeq(values)) - MulI(slope, SumX(n)), n)
  IN  [i \in 1..horizon |-> Max(0, MulI(slope, n + i - 1) + intercept)]

\* ------------------------------------------------------------------------
\* utils/forecasting.ts: calculateForecast
\* ------------------------------------------------------------------------
HOLT_WINTERS == "Holt-Winters (Triple Exponential)"

PROPHET == "Prophet-Inspired (Additive)"

ARIMA == "ARIMA (Auto-Regressive)"

LINEAR == "Linear Regression"

\* the empty date string ''
NoDate == DateOf(0, 0, 0)

\* historicalData.filter(d => d.date <= trainingDataEndDate)
TrainingData(historicalData, trainingDataEndDate) ==
  SelectSeq(historicalData, LAMBDA d : DateLE(d.date, trainingDataEndDate))

\* data.map(d => d.quantity)
QuantitiesOf(data) == [i \in 1..Len(data) |-> data[i].quantity]

EffectiveHWMethod(values, method, hwMethod, autoDetectHW) ==
  IF method = HOLT_WINTERS /\ autoDetectHW THEN detectHWMethod(values)
  ELSE hwMethod

\* the switch (method) of calculateForecast
ForecastValues(values, horizon, method, effectiveHWMethod) ==
  CASE method = LINEAR  -> runLinear(values, horizon)
    [] method = PROPHET -> runProphet(values, horizon)
    [] method = ARIMA   -> runArima(values, horizon)
    [] OTHER -> runHoltWinters(values, horizon, SeasonLength, effectiveHWMethod)

HistoricalPointsAllPast(historicalData, trainingDataEndDate) ==
  [i \in 1..Len(historicalData) |->
     [date       |-> historicalData[i].date,
      historical |-> historicalData[i].quantity,
      forecast   |-> historicalData[i].quantity,
      isForecast |-> FALSE]]

HistoricalPointsMonthOnly(historicalData, trainingDataEndDate) ==
  [i \in 1..Len(historicalData) |->
     [date       |-> historicalData[i].date,
      historical |-> historicalData[i].quantity,
      forecast   |-> historicalData[i].quantity,
      isForecast |-> historicalData[i].date.m > trainingDataEndDate.m]]

\* historicalData.map(d => ({date, historical, forecast, isForecast}))
HistoricalPoints(historicalData, trainingDataEndDate) ==
  [i \in 1..Len(historicalData) |->
     [date       |-> historicalData[i].date,
      historical |-> historicalData[i].quantity,
      forecast   |-> historicalData[i].quantity,
      isForecast |-> DateLT(trainingDataEndDate, historicalData[i].date)]]

\* the date of forecast step `step`: lastDate is the cutoff set to the
\* first of its month, forecastDate is lastDate with step months added
ForecastDate(trainingDataEndDate, step, zone) ==
  LET lastDate == SetDate(ParseDate(trainingDataEndDate), 1, zone)
      forecastDate == SetMonth(lastDate, GetMonth(lastDate, zone) + step, zone)
  IN  FirstOfMonth(ISODate(forecastDate))

\* the points pushed by forecastValues.forEach
FuturePoints(forecastValues, values, trainingDataEndDate, confidenceLevel, zone) ==
  LET multiplier == getZMultiplier(confidenceLevel)
      stdDev == getStdDev(values)
  IN  [i \in 1..Len(forecastValues) |->
         LET step == i
             val == forecastValues[i]
             uncertainty == Mul(Mul(Mul(multiplier, stdDev), Sqrt(Num(step))),
                                Dec(4, 10))
         IN  [date       |-> ForecastDate(trainingDataEndDate, step, zone),
              forecast   |-> Round(val),
              lowerBound |-> Max(0, Round(val - uncertainty)),
              upperBound |-> Round(val + uncertainty),
              isForecast |-> TRUE]]

MinTrainingPoints == 3

TooFewV2(data) == Len(data) < MinTrainingPoints - 1

\* historicalData.length < 3, trainingData.length < 3
TooFew(data) == Len(data) < MinTrainingPoints

\* one call of calculateForecast: what it returns (results) and the two
\* locals the forecast is made of; nothing is computed on an early return
ForecastRun(historicalData, horizon, trainingDataEndDate, confidenceLevel, method, hwMethod, autoDetectHW, zone) ==
  LET none == [results |-> <<>>, forecastValues |-> <<>>,
               effectiveHWMethod |-> "none"]
  IN
  IF TooFew(historicalData) \/ trainingDataEndDate = NoDate THEN none
  ELSE
    LET trainingData == TrainingData(historicalData, trainingDataEndDate)
    IN  IF TooFew(trainingData) THEN none
        ELSE
          LET values == QuantitiesOf(trainingData)
              effective == EffectiveHWMethod(values, method, hwMethod,
                                             autoDetectHW)
              forecastValues == ForecastValues(values, horizon, method,
                                               effective)
          IN  [results |->
                 HistoricalPoints(historicalData, trainingDataEndDate)
                 \o FuturePoints(forecastValues, values, trainingDataEndDate,
                                 confidenceLevel, zone),
               forecastValues |-> forecastValues,
               effectiveHWMethod |-> effective]

calculateForecast(historicalData, horizon, trainingDataEndDate, confidenceLevel, method, hwMethod, autoDetectHW, zone) ==
  ForecastRun(historicalData, horizon, trainingDataEndDate,
              confidenceLevel, method, hwMethod, autoDetectHW, zone).results

\* ------------------------------------------------------------------------
\* The Forecaster as a state machine: a data set is loaded, then
\* calculateForecast (or the exported detectHWMethod) is called on it.
\* ------------------------------------------------------------------------
MaxLen == 4

MaxFlatLen == 24

MaxHorizon == 12

Quantities == {0, 4}

FlatValues == {0, 1, 100}

\* hours east of UTC of the environment: New York (winter), UTC, Athens
TimeZones == {-5, 0, 2}

Horizons == {1, 2, MaxHorizon}

ConfidenceLevels == {95, 80}

\* the month (year * 12 + month index) of the last observation: 2025-07
LastMonth == 2025 * 12 + 6

MonthDate(k) == DateOf(k \div 12, (k % 12) + 1, 1)

\* n monthly observations of one item, the last one dated 2025-07-01
SeriesOf(quantities) ==
  LET n == Len(quantities)
  IN  [i \in 1..n |-> [date |-> MonthDate(LastMonth - (n - i)),
                       sku |-> "A",
                       quantity |-> quantities[i]]]

\* lengths of the flat series: the short ones, those around one seasonal
\* cycle, and two full cycles
FlatLengths ==
  (1..(MaxLen + 1))
  \cup {SeasonLength - 1, SeasonLength, SeasonLength + 1, MaxFlatLen}

DataSets ==
  {SeriesOf(q) : q \in UNION {[1..n -> Quantities] : n \in 0..MaxLen}}
  \cup {SeriesOf([i \in 1..n |-> c]) : n \in FlatLengths, c \in FlatValues}

\* training cutoffs: none, mid-month before the last observation, the
\* first and the last day of the month of the last observation
Cutoffs ==
  {NoDate, DateOf(2025, 6, 15), DateOf(2025, 7, 1), DateOf(2025, 7, 31)}

\* (method, hwMethod, autoDetectHW)
MethodConfigs ==
  {<<HOLT_WINTERS, "additive", FALSE>>,
   <<HOLT_WINTERS, "multiplicative", FALSE>>,
   <<HOLT_WINTERS, "multiplicative", TRUE>>,
   <<PROPHET, "multiplicative", FALSE>>,
   <<ARIMA, "multiplicative", FALSE>>,
   <<LINEAR, "multiplicative", FALSE>>}

NoArgs == [horizon |-> 0, trainingDataEndDate |-> NoDate,
           confidenceLevel |-> 0, method |-> "none", hwMethod |-> "none",
           autoDetectHW |-> FALSE]

VARIABLES
  tz,                 \* time zone of the environment, hours east of UTC
  historicalData,     \* the DataPoint[] handed to the Forecaster
  args,               \* the other arguments of the call made
  results,            \* the ForecastPoint[] returned
  forecastValues,     \* local forecastValues of the call
  effectiveHWMethod,  \* local effectiveHWMethod / result of detectHWMethod
  pc                  \* "idle", "done" (calculateForecast), "detected"

\* the state of the application around backtestResults (App.tsx)
VARIABLES
  data,                \* the DataPoint[] uploaded, every item
  filterSkus,          \* committedSettings.filters.skus
  forecastStartMonth,  \* the forecast-start date, anchor of the test window
  marketAdj,           \* multiplier of the market adjustment, 0 when off
  methodology,         \* committedSettings.filters.methodology
  uniqueSkus,          \* local uniqueSkus
  testWindow,          \* testStartStr, testEndStr
  skuIdx,              \* position of uniqueSkus.forEach (Phase 1)
  methodIdx,           \* position of the forEach over the methods
  trainData,           \* local trainData of the item under way
  skuMethods,          \* local Map skuMethods of the item under way
  skuMethodForecasts,  \* Map sku -> skuMethods, in insertion order
  stage,               \* progress of each (item, method) pair
  methodRows,          \* methodActuals / methodForecasts of each method
  methodMetrics,
  aggregatedMetrics,
  comparisonData,
  qualityPageMetrics,
  qualityPageMethodRows,
  qualityPageMethodMetrics,
  bpc                  \* position of backtestResults

forecasterVars == <<historicalData, args, results, forecastValues,
                    effectiveHWMethod, pc>>

backtestVars == <<data, filterSkus, forecastStartMonth, marketAdj,
                  methodology, uniqueSkus, testWindow, skuIdx, methodIdx,
                  trainData, skuMethods, skuMethodForecasts, stage,
                  methodRows, methodMetrics, aggregatedMetrics,
                  comparisonData, qualityPageMetrics, qualityPageMethodRows,
                  qualityPageMethodMetrics, bpc>>

\* the scoring of one list of matched (actual, forecast) pairs
VARIABLES
  scoredPairs,         \* the matched pairs handed to a metrics computation
  reported             \* the metrics bundle reported for them

metricsVars == <<scoredPairs, reported>>

\* the state of the application around skuLevelForecasts (App.tsx)
VARIABLES
  inventory,              \* the InventoryLevel[] uploaded
  productionPlans,        \* filters.productionPlans
  committedPlans,         \* committedSettings.filters.productionPlans
  shocks,                 \* filters.shocks
  historicalDataEndDate,  \* end date of the historical data
  committedHorizon,       \* committedSettings.horizon
  skuLevelForecasts       \* Map sku -> enriched forecast, insertion order

supplyVars == <<inventory, productionPlans, committedPlans, shocks,
                historicalDataEndDate, committedHorizon, skuLevelForecasts>>

\* the state of the application around the inventory alerts (App.tsx)
VARIABLES
  futureForecast,         \* the enriched forecast the alerts are read from
  inventoryAlerts,        \* the alerts shown
  exportedAlerts          \* the rows of the alert CSV last exported

alertVars == <<futureForecast, inventoryAlerts, exportedAlerts>>

\* the state of the application around the portfolio analysis (App.tsx)
VARIABLES
  skuLevelData,               \* the per-item table of the two windows
  paretoResults,              \* ABC classes over the historical window
  forecastParetoResults,      \* ABC classes over the forecast window
  volatilityResults,          \* volatility over the historical window
  forecastVolatilityResults,  \* volatility over the forecast window
  portfolioChanges,           \* the items whose class or risk changed
  transformationMatrix        \* the class transitions with their counts

portfolioVars == <<skuLevelData, paretoResults, forecastParetoResults,
                   volatilityResults, forecastVolatilityResults,
                   portfolioChanges, transformationMatrix>>

\* the state of the application around Run Analysis and the file uploads
\* (App.tsx)
VARIABLES
  triggerToken,   \* committedSettings.triggerToken: "0", "true" or "false"
  lines,          \* the file being read: its non-empty lines
  nextChunk,      \* startIdx of the processChunk call scheduled, 0 if none
  chunkLog        \* (startIdx, endIdx) of the processChunk calls made

uploadVars == <<lines, nextChunk, chunkLog>>

sessionVars == <<triggerToken, uploadVars>>

analysisVars == <<metricsVars, supplyVars, alertVars, portfolioVars,
                  sessionVars>>

vars == <<tz, forecasterVars, backtestVars, analysisVars>>

NoReport == [by |-> "none"]

\* no pairs scored
MetricsIdle ==
  /\ scoredPairs = <<>>
  /\ reported = NoReport

\* nothing uploaded for the supply chain, no forecast made
SupplyIdle ==
  /\ inventory = <<>>
  /\ productionPlans = <<>>
  /\ committedPlans = <<>>
  /\ shocks = <<>>
  /\ historicalDataEndDate = NoDate
  /\ committedHorizon = 0
  /\ skuLevelForecasts = <<>>

\* no forecast, no alert, nothing exported
AlertsIdle ==
  /\ futureForecast = <<>>
  /\ inventoryAlerts = <<>>
  /\ exportedAlerts = <<>>

\* no item forecast: every result of the portfolio analysis is empty
PortfolioIdle ==
  /\ skuLevelData = <<>>
  /\ paretoResults = <<>>
  /\ forecastParetoResults = <<>>
  /\ volatilityResults = <<>>
  /\ forecastVolatilityResults = <<>>
  /\ portfolioChanges = <<>>
  /\ transformationMatrix = <<>>

\* no file read
NoFile == [n |-> 0, kind |-> "none"]

\* Run Analysis never clicked, no file read
SessionIdle ==
  /\ triggerToken = "0"
  /\ lines = NoFile
  /\ nextChunk = 0
  /\ chunkLog = <<>>

AnalysisIdle ==
  MetricsIdle /\ SupplyIdle /\ AlertsIdle /\ PortfolioIdle /\ SessionIdle

\* useState('2025-08-01')
DefaultForecastStartMonth == DateOf(2025, 8, 1)

NoWindow == [startDate |-> NoDate, endDate |-> NoDate]

\* nothing uploaded, backtestResults not evaluated
BacktestIdle ==
  /\ data = <<>>
  /\ filterSkus = <<>>
  /\ forecastStartMonth = DefaultForecastStartMonth
  /\ marketAdj = 0
  /\ methodology = HOLT_WINTERS
  /\ uniqueSkus = <<>>
  /\ testWindow = NoWindow
  /\ skuIdx = 0
  /\ methodIdx = 0
  /\ trainData = <<>>
  /\ skuMethods = <<>>
  /\ skuMethodForecasts = <<>>
  /\ stage = <<>>
  /\ methodRows = <<>>
  /\ methodMetrics = <<>>
  /\ aggregatedMetrics = "null"
  /\ comparisonData = <<>>
  /\ qualityPageMetrics = "null"
  /\ qualityPageMethodRows = <<>>
  /\ qualityPageMethodMetrics = <<>>
  /\ bpc = "idle"

Init ==
  /\ tz \in TimeZones
  /\ historicalData \in DataSets
  /\ args = NoArgs
  /\ results = <<>>
  /\ forecastValues = <<>>
  /\ effectiveHWMethod = "none"
  /\ pc = "idle"
  /\ BacktestIdle
  /\ AnalysisIdle

CalculateForecast ==
  /\ pc = "idle"
  /\ \E horizon \in Horizons, cutoff \in Cutoffs,
        conf \in ConfidenceLevels, cfg \in MethodConfigs :
       LET run == ForecastRun(historicalData, horizon, cutoff, conf,
                              cfg[1], cfg[2], cfg[3], tz)
       IN  /\ args' = [horizon |-> horizon, trainingDataEndDate |-> cutoff,
                       confidenceLevel |-> conf, method |-> cfg[1],
                       hwMethod |-> cfg[2], autoDetectHW |-> cfg[3]]
           /\ results' = run.results
           /\ forecastValues' = run.forecastValues
           /\ effectiveHWMethod' = run.effectiveHWMethod
  /\ pc' = "done"
  /\ UNCHANGED <<tz, historicalData, backtestVars, analysisVars>>

DetectHWMethod ==
  /\ pc = "idle"
  /\ effectiveHWMethod' = detectHWMethod(QuantitiesOf(historicalData))
  /\ pc' = "detected"
  /\ UNCHANGED <<tz, historicalData, args, results, forecastValues,
                 backtestVars, analysisVars>>

Next == CalculateForecast \/ DetectHWMethod

Spec == Init /\ [][Next]_vars

\* ------------------------------------------------------------------------
\* The Forecaster on series of about one and two seasonal cycles whose
\* values vary.
\* ------------------------------------------------------------------------
SeasonalProfiles == {"ramp", "spike"}

\* the quantity of month i of a series
SeasonalQuantity(profile, i) ==
  IF profile = "ramp" THEN i
  ELSE IF i = 1 THEN 20 ELSE 2

\* lengths below, at and above one seasonal cycle, and two cycles
SeasonalLengths ==
  {MinTrainingPoints, SeasonLength, SeasonLength + 1, 2 * SeasonLength}

SeasonalDataSets ==
  {SeriesOf([i \in 1..n |-> SeasonalQuantity(profile, i)]) :
     n \in SeasonalLengths, profile \in SeasonalProfiles}

InitSeasonal ==
  /\ tz \in TimeZones
  /\ historicalData \in SeasonalDataSets
  /\ args = NoArgs
  /\ results = <<>>
  /\ forecastValues = <<>>
  /\ effectiveHWMethod = "none"
  /\ pc = "idle"
  /\ BacktestIdle
  /\ AnalysisIdle

SpecSeasonal == InitSeasonal /\ [][Next]_vars

\* ------------------------------------------------------------------------
\* Properties of the Forecaster
\* ------------------------------------------------------------------------
Called == pc = "done"

Attempted == Called /\ results # <<>>

NHist == Len(historicalData)

\* the points appended after the historical ones
FutureIdx == (NHist + 1)..Len(results)

\* the observations dated on or before the cutoff of the call
TrainedIdx ==
  {i \in 1..NHist : DateLE(historicalData[i].date, args.trainingDataEndDate)}

IsFlat(values) == \A i \in 1..Len(values) : values[i] = values[1]

TrainedValues ==
  QuantitiesOf(TrainingData(historicalData, args.trainingDataEndDate))

\* C1: whatever the method, horizon and confidence level, every future
\* point returned for a training series of at least 3 non-negative
\* quantities has forecast >= 0 and lowerBound >= 0.
C1_NonNegative ==
  Called =>
    \A i \in FutureIdx : results[i].forecast >= 0 /\ results[i].lowerBound >= 0

\* a falling series whose linear trend goes below zero: the floor acts
C1_Witness ==
  /\ Attempted
  /\ args.method = LINEAR
  /\ TrainedValues[1] > 0
  /\ TrainedValues[Len(TrainedValues)] = 0
  /\ \E i \in FutureIdx : results[i].forecast = 0 /\ results[i].lowerBound = 0

\* the month after the cutoff's month, plus (step - 1) months
ExpectedFutureDate(cutoff, step) == MonthDate(cutoff.y * 12 + (cutoff.m - 1) + step)

\* C2: the future points are dated the first day of the consecutive
\* calendar months that follow the month of the training cutoff, whatever
\* the day of the month of the cutoff.
C2_ConsecutiveMonths ==
  Attempted =>
    \A i \in FutureIdx :
      results[i].date = ExpectedFutureDate(args.trainingDataEndDate, i - NHist)

\* C3: with at least 3 training points the output is one point per input
\* point, flagged is_forecast = false iff dated on or before the cutoff,
\* followed by exactly `horizon` points flagged is_forecast = true.
C3_OutputShape ==
  (Called /\ Cardinality(TrainedIdx) >= 3) =>
    /\ Len(results) = NHist + args.horizon
    /\ \A i \in 1..NHist :
         /\ results[i].date = historicalData[i].date
         /\ results[i].isForecast = (i \notin TrainedIdx)
    /\ \A i \in FutureIdx : results[i].isForecast

\* an input with an observation after the cutoff, flagged as forecast
C3_Witness ==
  /\ Called
  /\ Cardinality(TrainedIdx) >= 3
  /\ Cardinality(TrainedIdx) < NHist
  /\ results[NHist].isForecast
  /\ Len(results) = NHist + MaxHorizon

StrictlyIncreasingDates(points, lo, hi) ==
  \A i \in lo..(hi - 1) : DateLT(points[i].date, points[i + 1].date)

SingleBoundary(points) ==
  \A i, j \in 1..Len(points) :
    (points[i].isForecast /\ ~points[j].isForecast) => j < i

\* C4 as stated: the returned series is in strictly increasing date order
\* and has a single historical/forecast boundary, also when the input has
\* observations after the cutoff.  Stated for an environment in UTC, where
\* the future dates are the months that follow the cutoff.
C4_OrderedAsStated ==
  (Called /\ tz = 0) =>
    /\ StrictlyIncreasingDates(results, 1, Len(results))
    /\ SingleBoundary(results)

\* C4 as amended: the series has a single historical/forecast boundary,
\* and the points taken from the input stay in strictly increasing date
\* order; the future points are appended after all of them.
C4_SingleBoundary ==
  Called =>
    /\ SingleBoundary(results)
    /\ StrictlyIncreasingDates(results, 1, Min(NHist, Len(results)))

\* observations after the cutoff, a year boundary inside the input
C4_Witness ==
  /\ Attempted
  /\ results[NHist].isForecast
  /\ ~results[1].isForecast
  /\ results[1].date.y < results[NHist].date.y

\* C5: with fewer than 3 input points, or fewer than 3 points dated on or
\* before the cutoff, the result is empty and no forecast is computed.
C5_InsufficientData ==
  (Called /\ (NHist < 3 \/ Cardinality(TrainedIdx) < 3)) =>
    /\ results = <<>>
    /\ forecastValues = <<>>
    /\ effectiveHWMethod = "none"

\* three observations, only two of them on or before the cutoff
C5_Witness ==
  /\ Called
  /\ NHist >= 3
  /\ Cardinality(TrainedIdx) = 2
  /\ results = <<>>

Tolerance == Dec(1, 100)

\* C6: on a flat training series (every value the same c >= 0, at least 3
\* values) both Holt-Winters variants forecast c at every step, within
\* numerical tolerance.
C6_FlatSeriesForecast ==
  (Attempted /\ args.method = HOLT_WINTERS /\ ~args.autoDetectHW
     /\ IsFlat(TrainedValues)) =>
    \A i \in 1..Len(forecastValues) :
      Abs(forecastValues[i] - Num(TrainedValues[1])) <= Tolerance

FlatCase ==
  \/ pc = "detected" /\ NHist > 0 /\ IsFlat(QuantitiesOf(historicalData))
  \/ Attempted /\ args.method = HOLT_WINTERS /\ args.autoDetectHW
       /\ IsFlat(TrainedValues)

FlatInput ==
  IF pc = "detected" THEN QuantitiesOf(historicalData) ELSE TrainedValues

\* C7 as stated: on every flat series, of any length and any constant
\* c >= 0, auto-detection selects the multiplicative variant.
C7_FlatAsStated == FlatCase => effectiveHWMethod = "multiplicative"

\* C7 as amended: auto-detection selects multiplicative on every flat
\* series of a positive constant, and on a flat series of zeros shorter
\* than 4 values; a flat series of zeros with 4 or more values selects
\* additive (its early sparsity is 100%).
C7_FlatDetection ==
  FlatCase =>
    effectiveHWMethod =
      (IF FlatInput[1] > 0 \/ Len(FlatInput) < 4
       THEN "multiplicative" ELSE "additive")

\* a flat series of a positive constant, long enough to be analysed
C7_Witness ==
  /\ pc = "detected"
  /\ NHist = MaxFlatLen
  /\ IsFlat(QuantitiesOf(historicalData))
  /\ historicalData[1].quantity = 100
  /\ effectiveHWMethod = "multiplicative"

\* ------------------------------------------------------------------------
\* App.tsx: backtestResults, the BacktestEngine
\* ------------------------------------------------------------------------
\* allMethods
AllMethods == <<HOLT_WINTERS, PROPHET, ARIMA, LINEAR>>

MinSkuPoints == 18

MinTrainPoints == 6

BacktestHorizon == 13

\* useState: filters.confidenceLevel, hwMethod, autoDetectHW
DefaultConfidenceLevel == 95

DefaultHWMethod == "multiplicative"

DefaultAutoDetectHW == TRUE

\* the item identifiers, in the order of Array.prototype.sort
SkuOrder == <<"A", "B">>

\* Array.from(new Set(data.map(d => d.sku))).sort()
SortedSkus(rows) ==
  SelectSeq(SkuOrder, LAMBDA s : \E i \in 1..Len(rows) : rows[i].sku = s)

UniqueSkus(skus, rows) == IF Len(skus) > 0 THEN skus ELSE SortedSkus(rows)

\* rows.sort((a, b) => a.date.localeCompare(b.date)), a stable sort
SortByDate(rows) ==
  LET n == Len(rows)
      Before(i, j) == \/ DateLT(rows[i].date, rows[j].date)
                      \/ rows[i].date = rows[j].date /\ i < j
      rank == [j \in 1..n |-> Cardinality({i \in 1..n : Before(i, j)}) + 1]
  IN  [k \in 1..n |-> rows[CHOOSE j \in 1..n : rank[j] = k]]

\* data.filter(d => d.sku === sku).sort(...)
SkuData(rows, sku) == SortByDate(SelectSeq(rows, LAMBDA d : d.sku = sku))

\* testStartStr: new Date(year, month - 1 - 12, 1) as an ISO date
TestStartStr(fsm, zone) ==
  ISODate(MakeTime([y |-> fsm.y, m |-> fsm.m - 12, d |-> 1, h |-> 0], zone))

\* testEndStr: new Date(year, month - 1 - 1, 1) as an ISO date
TestEndStr(fsm, zone) ==
  ISODate(MakeTime([y |-> fsm.y, m |-> fsm.m - 1, d |-> 1, h |-> 0], zone))

TestStartTime(window) == ParseDate(window.startDate)

\* the end of the window, extended by 24 hours
TestEndTime(window) == ParseDate(window.endDate) + HoursPerDay

\* skuData.filter(d => new Date(d.date).getTime() < testStartTime)
TrainData(skuData, testStartTime) ==
  SelectSeq(skuData, LAMBDA d : ParseDate(d.date) < testStartTime)

EligibleAnyTraining(skuData, train) == Len(skuData) >= MinSkuPoints

EligibleAnyLength(skuData, train) == Len(train) >= MinTrainPoints

\* neither of the two early returns of Phase 1 is taken
Eligible(skuData, train) ==
  Len(skuData) >= MinSkuPoints /\ Len(train) >= MinTrainPoints

ActualForExactDate(skuData, fDate) ==
  LET matches == {i \in 1..Len(skuData) : skuData[i].date = fDate}
  IN  IF matches = {} THEN 0
      ELSE skuData[CHOOSE i \in matches : \A j \in matches : i <= j].quantity

\* skuData.find(d => normalizeDateFormat(d.date) === normalized), then
\* match ? match.quantity : 0
ActualFor(skuData, fDate) ==
  LET normalized == normalizeDateFormat(fDate)
      matches == {i \in 1..Len(skuData) :
                    normalizeDateFormat(skuData[i].date) = normalized}
  IN  IF matches = {} THEN 0
      ELSE skuData[CHOOSE i \in matches : \A j \in matches : i <= j].quantity

\* forecast.map(p => p.isForecast ? {...p, forecast: Math.round(...)} : p)
ApplyMarketAdj(forecast, multiplier) ==
  IF multiplier = 0 THEN forecast
  ELSE [i \in 1..Len(forecast) |->
          IF forecast[i].isForecast
          THEN [forecast[i] EXCEPT
                  !.forecast = Round(MulI(multiplier, forecast[i].forecast))]
          ELSE forecast[i]]

\* the forecast dates and values of a forecast, with the actual of each
\* date
MethodData(skuData, forecast) ==
  LET future == SelectSeq(forecast, LAMBDA f : f.isForecast)
      forecastDates == [i \in 1..Len(future) |-> future[i].date]
      forecastVals == [i \in 1..Len(future) |-> future[i].forecast]
      actualVals == [i \in 1..Len(future) |->
                       ActualFor(skuData, forecastDates[i])]
  IN  [dates |-> forecastDates, forecasts |-> forecastVals,
       actuals |-> actualVals]

\* the body of the forEach over the methods in Phase 1: the 13-period
\* forecast of one method from the training data, with its actuals
MethodForecast(skuData, train, method, multiplier, zone) ==
  MethodData(skuData,
             ApplyMarketAdj(
               calculateForecast(train, BacktestHorizon,
                                 train[Len(train)].date,
                                 DefaultConfidenceLevel, method,
                                 DefaultHWMethod, DefaultAutoDetectHW, zone),
               multiplier))

\* the (actual, forecast) pairs pushed for one item by
\* methodData.dates.forEach: those dated inside the test window.  Each row
\* also records the item and the date it comes from.
WindowRows(sku, methodData, testStartTime, testEndTime) ==
  LET n == Len(methodData.dates)
      inWindow == SelectSeq([i \in 1..n |-> i],
                            LAMBDA i : LET dt == ParseDate(methodData.dates[i])
                                       IN  dt >= testStartTime /\ dt <= testEndTime)
  IN  [k \in 1..Len(inWindow) |->
         [sku      |-> sku,
          date     |-> methodData.dates[inWindow[k]],
          actual   |-> methodData.actuals[inWindow[k]],
          forecast |-> methodData.forecasts[inWindow[k]]]]

\* skuMethodForecasts.forEach(...) for one method, items in insertion order
RECURSIVE MethodWindowRows(_, _, _, _)
MethodWindowRows(entries, method, testStartTime, testEndTime) ==
  IF entries = <<>> THEN <<>>
  ELSE WindowRows(Head(entries).sku, Head(entries).methods[method],
                  testStartTime, testEndTime)
       \o MethodWindowRows(Tail(entries), method, testStartTime, testEndTime)

\* { accuracy, mape, rmse, bias } of a non-empty list of pairs
Metrics(rows) ==
  LET n == Len(rows)
      total == SumSeq([i \in 1..n |-> rows[i].actual])
      forecastTotal == SumSeq([i \in 1..n |-> rows[i].forecast])
      wMAPENum == SumSeq([i \in 1..n |-> Abs(rows[i].actual - rows[i].forecast)])
      wMAPEDen == SumSeq([i \in 1..n |-> Abs(rows[i].actual)])
      sumSqErr == SumSeq([i \in 1..n |->
                            (rows[i].actual - rows[i].forecast)
                            * (rows[i].actual - rows[i].forecast)])
  IN  [accuracy |-> Max(0, Min(Num(100),
                     MulI(Num(1) - Div(Abs(total - forecastTotal),
                                       Max(total, 1)), 100))),
       mape     |-> IF wMAPEDen > 0 THEN MulI(Div(wMAPENum, wMAPEDen), 100)
                    ELSE 0,
       rmse     |-> Sqrt(Div(sumSqErr, n)),
       bias     |-> MulI(Div(forecastTotal - total, Max(total, 1)), 100)]

MetricsOrNull(rows) == IF Len(rows) > 0 THEN Metrics(rows) ELSE "null"

\* the two values of a JS number that are not finite, as integers no
\* finite quantity of the model reaches
Infinity == MaxInt

NaN == -MaxInt

\* Number.isFinite(x)
IsFinite(x) == x # NaN /\ x # Infinity

\* x / y * 100 for x >= 0 and y >= 0: x / 0 is Infinity, 0 / 0 is NaN
PercentOf(x, y) ==
  IF y # 0 THEN MulI(Div(x, y), 100)
  ELSE IF x = 0 THEN NaN ELSE Infinity

\* Math.max(0, 100 - mape): 100 - Infinity is -Infinity, and Math.max
\* returns NaN when an argument is NaN
AccuracyOf(mape) ==
  IF mape = NaN THEN NaN
  ELSE IF mape = Infinity THEN 0
  ELSE Max(0, Num(100) - mape)

\* utils/forecasting.ts calculateMetrics
calculateMetrics(actual, forecast, unitCost, sellingPrice) ==
  LET n == Min(Len(actual), Len(forecast))
      error == [i \in 1..n |-> forecast[i] - actual[i]]
      sumError == SumSeq(error)
      sumAbsError == SumSeq([i \in 1..n |-> Abs(error[i])])
      sumSqError == SumSeq([i \in 1..n |-> error[i] * error[i]])
      sumActual == SumSeq(SubSeq(actual, 1, n))
      mape == IF n > 0 THEN PercentOf(sumAbsError, sumActual) ELSE 0
  IN  [mape     |-> mape,
       rmse     |-> Sqrt(Div(sumSqError, IF n = 0 THEN 1 ELSE n)),
       bias     |-> MulI(Div(sumError, IF sumActual = 0 THEN 1 ELSE sumActual),
                         100),
       mad      |-> Div(sumAbsError, IF n = 0 THEN 1 ELSE n),
       accuracy |-> AccuracyOf(mape),
       holdingCostRisk |-> 0,
       stockoutRevenueRisk |-> 0]

\* the keys of comparisonByDate, sorted by localeCompare
SortedDates(dates) ==
  [k \in 1..Cardinality(dates) |->
     CHOOSE d \in dates : Cardinality({e \in dates : DateLT(e, d)}) = k - 1]

\* Phase 3: per normalized date, the sums over the in-window rows of the
\* selected methodology
ComparisonData(rows) ==
  LET n == Len(rows)
      dates == SortedDates({normalizeDateFormat(rows[i].date) : i \in 1..n})
      At(d) == SelectSeq(rows, LAMBDA r : normalizeDateFormat(r.date) = d)
  IN  [k \in 1..Len(dates) |->
         [date     |-> dates[k],
          actual   |-> SumSeq([i \in 1..Len(At(dates[k])) |->
                                 At(dates[k])[i].actual]),
          forecast |-> SumSeq([i \in 1..Len(At(dates[k])) |->
                                 At(dates[k])[i].forecast])]]

\* the filter of Phase 4 (same logic as getQualityPageData): from 7 months
\* before the forecast start up to, not including, the month before it
InQualityPageWindow(date, fsm) ==
  LET backMonth == IF fsm.m - 7 <= 0 THEN fsm.m - 7 + 12 ELSE fsm.m - 7
      backYear == IF fsm.m - 7 <= 0 THEN fsm.y - 1 ELSE fsm.y
      excludeMonth == IF fsm.m - 1 <= 0 THEN fsm.m - 1 + 12 ELSE fsm.m - 1
      excludeYear == IF fsm.m - 1 <= 0 THEN fsm.y - 1 ELSE fsm.y
  IN  /\ ~(date.y < backYear)
      /\ ~(date.y = backYear /\ date.m < backMonth)
      /\ ~(date.y > excludeYear)
      /\ ~(date.y = excludeYear /\ date.m >= excludeMonth)

QualityPageData(comparison, fsm) ==
  SelectSeq(comparison, LAMBDA d : InQualityPageWindow(d.date, fsm))

\* the pairs of one item whose normalized date is a date of qualityPageData
QualityRows(sku, methodData, qualityData) ==
  LET n == Len(methodData.dates)
      found == SelectSeq([i \in 1..n |-> i],
                         LAMBDA i : \E k \in 1..Len(qualityData) :
                           qualityData[k].date
                             = normalizeDateFormat(methodData.dates[i]))
  IN  [k \in 1..Len(found) |->
         [sku      |-> sku,
          date     |-> methodData.dates[found[k]],
          actual   |-> methodData.actuals[found[k]],
          forecast |-> methodData.forecasts[found[k]]]]

RECURSIVE MethodQualityRows(_, _, _)
MethodQualityRows(entries, method, qualityData) ==
  IF entries = <<>> THEN <<>>
  ELSE QualityRows(Head(entries).sku, Head(entries).methods[method],
                   qualityData)
       \o MethodQualityRows(Tail(entries), method, qualityData)

\* ------------------------------------------------------------------------
\* The BacktestEngine as a state machine: data is uploaded, then
\* backtestResults is evaluated step by step.
\* ------------------------------------------------------------------------
MaxTrainPoints == 8

WindowMonths == 12

ForecastStartMonths == {DefaultForecastStartMonth, DateOf(2025, 1, 1)}

\* the multiplier of marketAdj; 0 stands for no adjustment
MarketMultipliers == {0, Dec(11, 10)}

MonthIdx(date) == date.y * 12 + date.m - 1

\* quantities are positive: the upload keeps rows with quantity > 0 only
Quantity(sku, k) == 10 + (k % 7) + (IF sku = "B" THEN 3 ELSE 0)

\* the shapes of an item's history
Variants ==
  {"complete", "gapTrainEnd", "longGapTrainEnd", "gapWindow", "twoInMonth"}

\* the uploaded rows of one item: `train` months before the test window,
\* the window, `after` months from the forecast start on, one observation
\* per month on day `day`; a month may be missing (the last one or the
\* last two before the window, or one inside it), or hold a second
\* observation uploaded last
ItemRows(sku, fsm, p) ==
  LET fs == MonthIdx(fsm)
      first == fs - WindowMonths - p.train
      last == fs - 1 + p.after
      months ==
        SelectSeq([i \in 1..(last - first + 1) |-> first + i - 1],
                  LAMBDA k :
                    /\ ~(p.variant = "gapTrainEnd" /\ k = fs - WindowMonths - 1)
                    /\ ~(/\ p.variant = "longGapTrainEnd"
                          /\ k \in {fs - WindowMonths - 1, fs - WindowMonths - 2})
                    /\ ~(p.variant = "gapWindow" /\ k = fs - 3))
      rows == [i \in 1..Len(months) |->
                 [date     |-> DateOf(months[i] \div 12, (months[i] % 12) + 1,
                                      p.day),
                  sku      |-> sku,
                  quantity |-> Quantity(sku, months[i])]]
      extra == IF p.variant = "twoInMonth"
               THEN <<[date     |-> DateOf((fs - 3) \div 12,
                                           ((fs - 3) % 12) + 1, 5),
                       sku      |-> sku,
                       quantity |-> 99]>>
               ELSE <<>>
  IN  rows \o extra

\* (day of the month of the observations, months after the window)
Layouts == {<<1, 1>>, <<15, 0>>}

ProfilesA ==
  {[train |-> t, day |-> l[1], variant |-> v, after |-> l[2]] :
     t \in {MinTrainPoints - 1, MinTrainPoints, MaxTrainPoints},
     v \in Variants, l \in Layouts}

\* the second item: absent, or eligible
ProfilesB ==
  {[train |-> 0, day |-> 1, variant |-> "absent", after |-> 0],
   [train |-> MinTrainPoints, day |-> 1, variant |-> "complete",
    after |-> 0]}

Upload(fsm, pa, pb) ==
  ItemRows("A", fsm, pa)
  \o (IF pb.variant = "absent" THEN <<>> ELSE ItemRows("B", fsm, pb))

MethodSet == {AllMethods[i] : i \in 1..Len(AllMethods)}

Pairs == {<<SkuOrder[i], m>> : i \in 1..Len(SkuOrder), m \in MethodSet}

InitBacktest ==
  /\ tz \in TimeZones
  /\ historicalData = <<>>
  /\ args = NoArgs
  /\ results = <<>>
  /\ forecastValues = <<>>
  /\ effectiveHWMethod = "none"
  /\ pc = "idle"
  /\ forecastStartMonth \in ForecastStartMonths
  /\ \E pa \in ProfilesA, pb \in ProfilesB :
       data = Upload(forecastStartMonth, pa, pb)
  /\ filterSkus \in {<<>>, <<"B", "A">>}
  /\ marketAdj \in MarketMultipliers
  /\ methodology = HOLT_WINTERS
  /\ uniqueSkus = <<>>
  /\ testWindow = NoWindow
  /\ skuIdx = 0
  /\ methodIdx = 0
  /\ trainData = <<>>
  /\ skuMethods = <<>>
  /\ skuMethodForecasts = <<>>
  /\ stage = [pr \in Pairs |-> "Idle"]
  /\ methodRows = <<>>
  /\ methodMetrics = <<>>
  /\ aggregatedMetrics = "null"
  /\ comparisonData = <<>>
  /\ qualityPageMetrics = "null"
  /\ qualityPageMethodRows = <<>>
  /\ qualityPageMethodMetrics = <<>>
  /\ bpc = "idle"
  /\ AnalysisIdle

\* uniqueSkus, the early return on too little data, the test window
BacktestStart ==
  /\ bpc = "idle"
  /\ uniqueSkus' = UniqueSkus(filterSkus, data)
  /\ IF Len(uniqueSkus') = 0 \/ Len(data) < MinSkuPoints
     THEN /\ bpc' = "returned"
          /\ UNCHANGED <<testWindow, skuIdx>>
     ELSE /\ testWindow' = [startDate |-> TestStartStr(forecastStartMonth, tz),
                            endDate   |-> TestEndStr(forecastStartMonth, tz)]
          /\ skuIdx' = 1
          /\ bpc' = "phase1"
  /\ UNCHANGED <<tz, forecasterVars, analysisVars, data, filterSkus,
                 forecastStartMonth,
                 marketAdj, methodology, methodIdx, trainData, skuMethods,
                 skuMethodForecasts, stage, methodRows, methodMetrics,
                 aggregatedMetrics, comparisonData, qualityPageMetrics,
                 qualityPageMethodRows, qualityPageMethodMetrics>>

\* Phase 1, start of an item: its data, the two early returns, the split
TrainSplit ==
  /\ bpc = "phase1"
  /\ skuIdx <= Len(uniqueSkus)
  /\ methodIdx = 0
  /\ LET sku == uniqueSkus[skuIdx]
         skuData == SkuData(data, sku)
         train == TrainData(skuData, TestStartTime(testWindow))
     IN  IF Eligible(skuData, train)
         THEN /\ trainData' = train
              /\ stage' = [pr \in Pairs |->
                             IF pr[1] = sku THEN "Trained" ELSE stage[pr]]
              /\ methodIdx' = 1
              /\ UNCHANGED skuIdx
         ELSE /\ skuIdx' = skuIdx + 1
              /\ UNCHANGED <<trainData, stage, methodIdx>>
  /\ UNCHANGED <<tz, forecasterVars, analysisVars, data, filterSkus,
                 forecastStartMonth,
                 marketAdj, methodology, uniqueSkus, testWindow, skuMethods,
                 skuMethodForecasts, methodRows, methodMetrics,
                 aggregatedMetrics, comparisonData, qualityPageMetrics,
                 qualityPageMethodRows, qualityPageMethodMetrics, bpc>>

\* Phase 1, one method of the item: forecast, actuals, skuMethods.set; after
\* the last method, skuMethodForecasts.set
ForecastMethod ==
  /\ bpc = "phase1"
  /\ methodIdx \in 1..Len(AllMethods)
  /\ LET sku == uniqueSkus[skuIdx]
         method == AllMethods[methodIdx]
         methodData == MethodForecast(SkuData(data, sku), trainData, method,
                                      marketAdj, tz)
         methods == (method :> methodData) @@ skuMethods
     IN  /\ stage' = [stage EXCEPT ![<<sku, method>>] = "Forecasted"]
         /\ IF methodIdx < Len(AllMethods)
            THEN /\ skuMethods' = methods
                 /\ methodIdx' = methodIdx + 1
                 /\ UNCHANGED <<skuIdx, trainData, skuMethodForecasts>>
            ELSE /\ skuMethodForecasts' =
                      Append(skuMethodForecasts,
                             [sku |-> sku, methods |-> methods])
                 /\ skuMethods' = <<>>
                 /\ trainData' = <<>>
                 /\ methodIdx' = 0
                 /\ skuIdx' = skuIdx + 1
  /\ UNCHANGED <<tz, forecasterVars, analysisVars, data, filterSkus,
                 forecastStartMonth,
                 marketAdj, methodology, uniqueSkus, testWindow, methodRows,
                 methodMetrics, aggregatedMetrics, comparisonData,
                 qualityPageMetrics, qualityPageMethodRows,
                 qualityPageMethodMetrics, bpc>>

\* the end of Phase 1: the early return when no item was forecast
EndPhase1 ==
  /\ bpc = "phase1"
  /\ skuIdx > Len(uniqueSkus)
  /\ IF Len(skuMethodForecasts) = 0
     THEN bpc' = "returned" /\ UNCHANGED methodIdx
     ELSE bpc' = "phase2" /\ methodIdx' = 1
  /\ UNCHANGED <<tz, forecasterVars, analysisVars, data, filterSkus,
                 forecastStartMonth,
                 marketAdj, methodology, uniqueSkus, testWindow, skuIdx,
                 trainData, skuMethods, skuMethodForecasts, stage,
                 methodRows, methodMetrics, aggregatedMetrics,
                 comparisonData, qualityPageMetrics, qualityPageMethodRows,
                 qualityPageMethodMetrics>>

\* Phase 2, one method: the pairs inside the test window over all items
\* forecast, and the metrics of the method when there is any pair
ScoreMethod ==
  /\ bpc = "phase2"
  /\ methodIdx \in 1..Len(AllMethods)
  /\ LET method == AllMethods[methodIdx]
         rows == MethodWindowRows(skuMethodForecasts, method,
                                  TestStartTime(testWindow),
                                  TestEndTime(testWindow))
     IN  /\ methodRows' = (method :> rows) @@ methodRows
         /\ IF Len(rows) > 0
            THEN /\ methodMetrics' = (method :> Metrics(rows)) @@ methodMetrics
                 /\ stage' = [pr \in Pairs |->
                                IF /\ pr[2] = method
                                   /\ \E i \in 1..Len(skuMethodForecasts) :
                                        skuMethodForecasts[i].sku = pr[1]
                                THEN "Scored" ELSE stage[pr]]
            ELSE UNCHANGED <<methodMetrics, stage>>
  /\ methodIdx' = methodIdx + 1
  /\ bpc' = IF methodIdx = Len(AllMethods) THEN "finish" ELSE "phase2"
  /\ UNCHANGED <<tz, forecasterVars, analysisVars, data, filterSkus,
                 forecastStartMonth,
                 marketAdj, methodology, uniqueSkus, testWindow, skuIdx,
                 trainData, skuMethods, skuMethodForecasts,
                 aggregatedMetrics, comparisonData, qualityPageMetrics,
                 qualityPageMethodRows, qualityPageMethodMetrics>>

\* the metrics of the selected methodology, Phase 3 and Phase 4, return
Finish ==
  /\ bpc = "finish"
  /\ \E selected \in MethodSet :
       LET rows == MethodWindowRows(skuMethodForecasts, selected,
                                    TestStartTime(testWindow),
                                    TestEndTime(testWindow))
           comparison == ComparisonData(rows)
           qualityData == QualityPageData(comparison, forecastStartMonth)
           qualityRows == [m \in MethodSet |->
                             MethodQualityRows(skuMethodForecasts, m,
                                               qualityData)]
           scored == {m \in MethodSet : Len(qualityRows[m]) > 0}
       IN  /\ methodology' = selected
           /\ aggregatedMetrics' = MetricsOrNull(rows)
           /\ comparisonData' = comparison
           /\ qualityPageMetrics' = MetricsOrNull(qualityData)
           /\ qualityPageMethodRows' = qualityRows
           /\ qualityPageMethodMetrics' =
                [m \in scored |-> Metrics(qualityRows[m])]
  /\ bpc' = "returned"
  /\ UNCHANGED <<tz, forecasterVars, analysisVars, data, filterSkus,
                 forecastStartMonth,
                 marketAdj, uniqueSkus, testWindow, skuIdx, methodIdx,
                 trainData, skuMethods, skuMethodForecasts, stage,
                 methodRows, methodMetrics>>

NextBacktest ==
  \/ BacktestStart
  \/ TrainSplit
  \/ ForecastMethod
  \/ EndPhase1
  \/ ScoreMethod
  \/ Finish

SpecBacktest == InitBacktest /\ [][NextBacktest]_vars

\* ------------------------------------------------------------------------
\* The metrics computations as a state machine: a list of matched pairs is
\* scored by the backtest bundle (methodMetrics, aggregatedMetrics,
\* qualityPageMetrics, qualityPageMethodMetrics) or by calculateMetrics
\* (the per-item metrics of worstSkus).
\* ------------------------------------------------------------------------
MaxPairs == 3

ActualValues == {0, 5, 10}

ForecastedValues == {0, 5, 30}

PairRows == {[actual |-> a, forecast |-> f] : a \in ActualValues, f \in ForecastedValues}

PairLists == UNION {[1..n -> PairRows] : n \in 0..MaxPairs}

\* forecast values past the end of the actual values
ExtraForecasts == {<<>>, <<5>>}

InitMetrics ==
  /\ SessionIdle
  /\ tz = 0
  /\ historicalData = <<>>
  /\ args = NoArgs
  /\ results = <<>>
  /\ forecastValues = <<>>
  /\ effectiveHWMethod = "none"
  /\ pc = "idle"
  /\ BacktestIdle
  /\ scoredPairs \in PairLists
  /\ reported = NoReport
  /\ SupplyIdle
  /\ AlertsIdle
  /\ PortfolioIdle

\* the metrics bundle of backtestResults for a non-empty list of pairs
ScoreWindow ==
  /\ reported.by = "none"
  /\ Len(scoredPairs) > 0
  /\ reported' = [by |-> "backtestResults", metrics |-> Metrics(scoredPairs)]
  /\ UNCHANGED <<tz, sessionVars, forecasterVars, backtestVars, scoredPairs, supplyVars,
                 alertVars, portfolioVars>>

\* the entry of worstSkus for an item: testActuals are quantities of the
\* item's observations
ScoreSku ==
  /\ reported.by = "none"
  /\ Len(scoredPairs) > 0
  /\ \A i \in 1..Len(scoredPairs) : scoredPairs[i].actual > 0
  /\ LET testActuals == [i \in 1..Len(scoredPairs) |-> scoredPairs[i].actual]
         testForecasts == [i \in 1..Len(scoredPairs) |->
                             scoredPairs[i].forecast]
     IN  reported' = [by |-> "worstSkus",
                      metrics |-> calculateMetrics(testActuals, testForecasts,
                                                   1, 1)]
  /\ UNCHANGED <<tz, sessionVars, forecasterVars, backtestVars, scoredPairs, supplyVars,
                 alertVars, portfolioVars>>

\* calculateMetrics applied to two arrays of non-negative numbers, of
\* equal length or the second one longer
CallCalculateMetrics ==
  /\ reported.by = "none"
  /\ \E extra \in ExtraForecasts :
       LET actual == [i \in 1..Len(scoredPairs) |-> scoredPairs[i].actual]
           forecast == [i \in 1..Len(scoredPairs) |->
                          scoredPairs[i].forecast] \o extra
       IN  reported' = [by |-> "calculateMetrics",
                        metrics |-> calculateMetrics(actual, forecast, 1, 1)]
  /\ UNCHANGED <<tz, sessionVars, forecasterVars, backtestVars, scoredPairs, supplyVars,
                 alertVars, portfolioVars>>

NextMetrics == ScoreWindow \/ ScoreSku \/ CallCalculateMetrics

SpecMetrics == InitMetrics /\ [][NextMetrics]_vars

\* ------------------------------------------------------------------------
\* App.tsx: the per-item forecasts enriched by the SupplyChainProjector
\* (skuLevelForecasts). The projector itself, utils/supplyChain.ts, is
\* modelled from its specification.
\* ------------------------------------------------------------------------
\* filters.globalLeadTime, in days
GlobalLeadTime == 30

\* filters.globalServiceLevel, in percent
GlobalServiceLevel == 95

\* days of a month, for the average daily demand
DaysPerMonth == 30

\* the rows of the items selected, up to the end date, sorted by date
\* (the start date precedes every row; anomaly cleaning and the category
\* filter are off)
ProcessedData(rows, skus, endDate) ==
  SortByDate(SelectSeq(rows, LAMBDA d :
    /\ ParseDate(d.date) <= ParseDate(endDate)
    /\ (Len(skus) = 0 \/ \E i \in 1..Len(skus) : skus[i] = d.sku)))

\* the quantities of processedData summed per date, sorted by date
AggregatedData(processed) ==
  LET dates == SortedDates({processed[i].date : i \in 1..Len(processed)})
  IN  [k \in 1..Len(dates) |->
         [date     |-> dates[k],
          sku      |-> "ALL",
          quantity |-> SumSeq([i \in 1..Len(processed) |->
                                 IF processed[i].date = dates[k]
                                 THEN processed[i].quantity ELSE 0])]]

\* stats: the mean and the population standard deviation of aggregatedData
Stats(aggregated) ==
  LET values == QuantitiesOf(aggregated)
  IN  [avg |-> IF Len(values) > 0 THEN MeanOf(values) ELSE 0,
       std |-> getStdDev(values)]

\* the standard deviation handed to the projector for every item: that of
\* aggregatedData
SharedStd(rows, skus, endDate) ==
  Stats(AggregatedData(ProcessedData(rows, skus, endDate))).std

\* skuData of skuLevelForecasts: the rows of the item up to the end date
SkuHistory(rows, sku, endDate) ==
  SortByDate(SelectSeq(rows, LAMBDA d :
    d.sku = sku /\ ParseDate(d.date) <= ParseDate(endDate)))

\* applyMarketShocks(forecastPoints, shocks): the forecast of a forecast
\* period in the month of a shock is scaled (the other fields it scales
\* are not set yet when skuLevelForecasts calls it)
applyMarketShocks(forecastPoints, shockList) ==
  IF Len(shockList) = 0 THEN forecastPoints
  ELSE [i \in 1..Len(forecastPoints) |->
          LET point == forecastPoints[i]
              found == {k \in 1..Len(shockList) :
                          /\ shockList[k].month.y = point.date.y
                          /\ shockList[k].month.m = point.date.m}
          IN  IF found # {} /\ point.isForecast
              THEN LET shock == shockList[CHOOSE k \in found :
                                            \A j \in found : k <= j]
                       multiplier == Num(1) + Dec(shock.percentageChange, 100)
                   IN  [point EXCEPT
                          !.forecast = Round(MulI(multiplier, point.forecast))]
              ELSE point]

OnHandOfAll(inv, sku) ==
  SumSeq([i \in 1..Len(inv) |-> inv[i].onHand])

\* inventory.find(i => i.sku === sku)?.onHand || 0
OnHandOf(inv, sku) ==
  LET found == {i \in 1..Len(inv) : inv[i].sku = sku}
  IN  IF found = {} THEN 0
      ELSE inv[CHOOSE i \in found : \A j \in found : i <= j].onHand

ReceiptMatchesExactDay(plan, sku, date) ==
  plan.sku = sku /\ plan.date = date

\* a receipt is matched to a period of its item by exact equality of the
\* normalized dates
ReceiptMatches(plan, sku, date) ==
  /\ plan.sku = sku
  /\ normalizeDateFormat(plan.date) = normalizeDateFormat(date)

\* the sum of the receipts matching the period dated `date`
ReceiptsAt(plans, sku, date) ==
  SumSeq([i \in 1..Len(plans) |->
            IF ReceiptMatches(plans[i], sku, date)
            THEN plans[i].quantity ELSE 0])

\* the walk over the periods from position k on with `inv` carried
\* forward: a forecast period takes its demand off and adds its receipts
RECURSIVE ProjectInventory(_, _, _, _, _)
ProjectInventory(points, plans, sku, k, inv) ==
  IF k > Len(points) THEN <<>>
  ELSE IF ~points[k].isForecast
  THEN <<points[k]>> \o ProjectInventory(points, plans, sku, k + 1, inv)
  ELSE LET receipts == ReceiptsAt(plans, sku, points[k].date)
           after == inv - points[k].forecast + receipts
       IN  <<points[k] @@ [incomingProduction |-> receipts,
                           projectedInventory |-> after]>>
           \o ProjectInventory(points, plans, sku, k + 1, after)

\* safety_stock = z(service_level) * demand_std_dev * sqrt(lead_time)
SafetyStock(demandStdDev, leadTime, serviceLevel) ==
  Mul(Mul(getZMultiplier(serviceLevel), demandStdDev), Sqrt(Num(leadTime)))

\* the forecast demand of a month divided by the days of a month
AverageDailyDemand(forecast) ==
  LET future == SelectSeq(forecast, LAMBDA f : f.isForecast)
  IN  IF Len(future) = 0 THEN 0
      ELSE DivI(MeanOf([i \in 1..Len(future) |-> future[i].forecast]),
                DaysPerMonth)

\* reorder_point = average_daily_demand * lead_time + safety_stock
ReorderPoint(forecast, demandStdDev, leadTime, serviceLevel) ==
  MulI(AverageDailyDemand(forecast), leadTime)
  + SafetyStock(demandStdDev, leadTime, serviceLevel)

\* calculateSupplyChainMetricsPerSku(forecast, sku, demandStdDev, leadTime,
\* serviceLevel, onHand, ..., productionPlans): the series enriched with
\* the safety stock and the reorder point (scaled by Scale) and, for the
\* forecast periods, the receipts and the projected inventory
calculateSupplyChainMetricsPerSku(forecast, sku, demandStdDev, leadTime, serviceLevel, onHand, plans) ==
  LET levels == [safetyStock  |-> SafetyStock(demandStdDev, leadTime,
                                              serviceLevel),
                 reorderPoint |-> ReorderPoint(forecast, demandStdDev,
                                               leadTime, serviceLevel)]
      walked == ProjectInventory(forecast, plans, sku, 1, onHand)
  IN  [i \in 1..Len(walked) |-> walked[i] @@ levels]

\* skuForecast of the forEach of skuLevelForecasts: the forecast of the
\* item with the market adjustment and the shocks applied
SkuForecast(skuData, cfg) ==
  applyMarketShocks(
    ApplyMarketAdj(
      calculateForecast(skuData, cfg.horizon, cfg.endDate,
                        DefaultConfidenceLevel, cfg.methodology,
                        DefaultHWMethod, DefaultAutoDetectHW, cfg.zone),
      cfg.multiplier),
    cfg.shocks)

\* enrichedForecast of the forEach of skuLevelForecasts
EnrichedForecast(rows, sku, std, cfg) ==
  calculateSupplyChainMetricsPerSku(
    SkuForecast(SkuHistory(rows, sku, cfg.endDate), cfg), sku, std,
    GlobalLeadTime, GlobalServiceLevel, OnHandOf(cfg.inventory, sku),
    cfg.plans)

\* the Map built by skuLevelForecasts, in insertion order: an item without
\* rows gets no entry
SkuLevelForecasts(rows, skus, cfg) ==
  LET withData == SelectSeq(UniqueSkus(skus, rows), LAMBDA s :
                    Len(SkuHistory(rows, s, cfg.endDate)) > 0)
      std == SharedStd(rows, skus, cfg.endDate)
  IN  [i \in 1..Len(withData) |->
         [sku      |-> withData[i],
          forecast |-> EnrichedForecast(rows, withData[i], std, cfg)]]

\* ------------------------------------------------------------------------
\* The application around skuLevelForecasts as a state machine: histories,
\* on-hand quantities and settings are loaded; production plans are
\* uploaded into the draft filters, and Run Analysis commits them, upon
\* which skuLevelForecasts is evaluated again.
\* ------------------------------------------------------------------------
MaxHistory == 3

MaxPlans == 1

SupplyHorizon == 3

\* the month of the last observation of a history: 2024-05
SupplyLastMonth == 2024 * 12 + 4

HistoryProfiles == {"flat", "varying"}

HistoryQuantity(profile, i) ==
  IF profile = "flat" THEN 80 ELSE 10 + 40 * (i % 3) * (i % 3)

\* n monthly rows of an item, the last one dated 2024-05-01
History(sku, profile, n) ==
  [i \in 1..n |-> [date     |-> MonthDate(SupplyLastMonth - (n - i)),
                   sku      |-> sku,
                   quantity |-> HistoryQuantity(profile, i)]]

\* item A with a full history; item B absent, too short to forecast, or
\* with a full history
SupplyUploads ==
  {History("A", pa, MaxHistory + 1) \o hb :
     pa \in HistoryProfiles,
     hb \in {<<>>, History("B", "flat", MinTrainingPoints - 1),
             History("B", "varying", MaxHistory + 1)}}

Inventories ==
  {<<>>,
   <<[sku |-> "A", onHand |-> 100]>>,
   <<[sku |-> "B", onHand |-> 50], [sku |-> "A", onHand |-> 100]>>}

JulyShock == [month |-> [y |-> 2024, m |-> 7], percentageChange |-> 50]

\* the settings committed: the items selected, the shocks, the end date of
\* the historical data (useState('2024-05-01'), or a month earlier) and
\* the methodology
Scenarios ==
  {[skus |-> <<>>, shocks |-> <<>>, endDate |-> DateOf(2024, 5, 1),
    methodology |-> LINEAR],
   [skus |-> <<>>, shocks |-> <<JulyShock>>, endDate |-> DateOf(2024, 5, 1),
    methodology |-> HOLT_WINTERS],
   [skus |-> <<"A">>, shocks |-> <<>>, endDate |-> DateOf(2024, 4, 1),
    methodology |-> LINEAR],
   [skus |-> <<>>, shocks |-> <<>>, endDate |-> DateOf(2024, 4, 1),
    methodology |-> HOLT_WINTERS]}

PlanRow(sku, date, quantity) ==
  [sku |-> sku, date |-> date, quantity |-> quantity, type |-> "production"]

\* the rows of an uploaded production CSV, parsed
PlanUploads ==
  {<<PlanRow("A", DateOf(2024, 6, 15), 50)>>,
   <<PlanRow("A", DateOf(2024, 7, 1), 10)>>,
   <<PlanRow("B", DateOf(2024, 6, 15), 50)>>,
   <<PlanRow("A", DateOf(2024, 6, 15), 0)>>,
   <<PlanRow("A", DateOf(2025, 6, 15), 50)>>,
   <<PlanRow("A", DateOf(2024, 5, 20), 5)>>,
   <<PlanRow("A", DateOf(2024, 6, 15), 50),
     PlanRow("A", DateOf(2024, 6, 20), 2)>>}

\* what skuLevelForecasts reads of the state, with the committed plans
SupplyConfig(plans) ==
  [endDate     |-> historicalDataEndDate,
   horizon     |-> committedHorizon,
   methodology |-> methodology,
   multiplier  |-> marketAdj,
   shocks      |-> shocks,
   inventory   |-> inventory,
   plans       |-> plans,
   zone        |-> tz]

InitSupply ==
  /\ SessionIdle
  /\ tz \in TimeZones
  /\ historicalData = <<>>
  /\ args = NoArgs
  /\ results = <<>>
  /\ forecastValues = <<>>
  /\ effectiveHWMethod = "none"
  /\ pc = "idle"
  /\ data \in SupplyUploads
  /\ \E sc \in Scenarios :
       /\ filterSkus = sc.skus
       /\ methodology = sc.methodology
       /\ shocks = sc.shocks
       /\ historicalDataEndDate = sc.endDate
  /\ forecastStartMonth = DefaultForecastStartMonth
  /\ marketAdj = 0
  /\ uniqueSkus = <<>>
  /\ testWindow = NoWindow
  /\ skuIdx = 0
  /\ methodIdx = 0
  /\ trainData = <<>>
  /\ skuMethods = <<>>
  /\ skuMethodForecasts = <<>>
  /\ stage = <<>>
  /\ methodRows = <<>>
  /\ methodMetrics = <<>>
  /\ aggregatedMetrics = "null"
  /\ comparisonData = <<>>
  /\ qualityPageMetrics = "null"
  /\ qualityPageMethodRows = <<>>
  /\ qualityPageMethodMetrics = <<>>
  /\ bpc = "idle"
  /\ MetricsIdle
  /\ inventory \in Inventories
  /\ productionPlans = <<>>
  /\ committedPlans = <<>>
  /\ committedHorizon = SupplyHorizon
  /\ skuLevelForecasts =
       SkuLevelForecasts(data, filterSkus, SupplyConfig(committedPlans))
  /\ AlertsIdle
  /\ PortfolioIdle

\* the upload of a production CSV: the rows with a quantity above 0 are
\* appended to filters.productionPlans
UploadProductionPlans ==
  /\ Len(productionPlans) < MaxPlans
  /\ \E chunk \in PlanUploads :
       LET newPlans == SelectSeq(chunk, LAMBDA r : r.quantity > 0)
       IN  /\ Len(newPlans) > 0
           /\ productionPlans' = productionPlans \o newPlans
  /\ UNCHANGED <<tz, sessionVars, forecasterVars, backtestVars, metricsVars, inventory,
                 committedPlans, shocks, historicalDataEndDate,
                 committedHorizon, skuLevelForecasts, alertVars,
                 portfolioVars>>

\* a value of triggerToken is truthy: 0 and false are not
Truthy(token) == token = "true"

\* !committedSettings.triggerToken
Negated(token) == IF Truthy(token) THEN "false" ELSE "true"

\* handleRunAnalysis: the draft filters are committed with the negated
\* triggerToken, and skuLevelForecasts is evaluated on them
RunAnalysis ==
  /\ triggerToken' = Negated(triggerToken)
  /\ committedPlans' = productionPlans
  /\ skuLevelForecasts' =
       SkuLevelForecasts(data, filterSkus, SupplyConfig(productionPlans))
  /\ UNCHANGED <<tz, uploadVars, forecasterVars, backtestVars, metricsVars, inventory,
                 productionPlans, shocks, historicalDataEndDate,
                 committedHorizon, alertVars, portfolioVars>>

NextSupply == UploadProductionPlans \/ RunAnalysis

SpecSupply == InitSupply /\ [][NextSupply]_vars

\* ------------------------------------------------------------------------
\* App.tsx, utils/export.ts: the inventory alerts read from the enriched
\* forecast, and their export
\* ------------------------------------------------------------------------
IsAlertAnyPeriod(p) ==
  /\ "projectedInventory" \in DOMAIN p
  /\ "safetyStock" \in DOMAIN p
  /\ (p.projectedInventory < 0 \/ p.projectedInventory < p.safetyStock)

\* the filter of inventoryAlerts and of exportAlerts
IsAlert(p) ==
  /\ p.isForecast
  /\ "projectedInventory" \in DOMAIN p
  /\ "safetyStock" \in DOMAIN p
  /\ (p.projectedInventory < 0 \/ p.projectedInventory < p.safetyStock)

UpToAlertAnyPeriod(forecast, date) ==
  SelectSeq(forecast, LAMBDA f : DateLE(f.date, date))

\* forecast.filter(f => f.isForecast && f.date <= alertPoint.date)
UpToAlert(forecast, date) ==
  SelectSeq(forecast, LAMBDA f : f.isForecast /\ DateLE(f.date, date))

\* reduce((sum, f) => sum + (f.incomingProduction || 0), 0)
TotalProduction(points) ==
  SumSeq([i \in 1..Len(points) |->
            IF "incomingProduction" \in DOMAIN points[i]
            THEN points[i].incomingProduction ELSE 0])

\* reduce((sum, f) => sum + f.forecast, 0)
TotalDemand(points) ==
  SumSeq([i \in 1..Len(points) |-> points[i].forecast])

\* inventoryAlerts
InventoryAlerts(forecast) ==
  LET alerts == SelectSeq(forecast, IsAlert)
  IN  [i \in 1..Len(alerts) |->
         [date               |-> alerts[i].date,
          projectedInventory |-> alerts[i].projectedInventory,
          safetyStock        |-> alerts[i].safetyStock,
          isCritical         |-> alerts[i].projectedInventory < 0,
          totalProduction    |->
            TotalProduction(UpToAlert(forecast, alerts[i].date)),
          totalDemand        |->
            TotalDemand(UpToAlert(forecast, alerts[i].date))]]

\* currentOnHand of the export button: the on-hand quantities of the
\* items selected
CurrentOnHand(inv, skus) ==
  SumSeq([i \in 1..Len(inv) |->
            IF \E k \in 1..Len(skus) : skus[k] = inv[i].sku
            THEN inv[i].onHand ELSE 0])

\* exportAlerts(forecast, currentOnHand, filename): the rows of the CSV
exportAlerts(forecast, currentOnHand) ==
  LET alerts == SelectSeq(forecast, IsAlert)
  IN  [i \in 1..Len(alerts) |->
         [sku                |-> "Multi-SKU",
          currentOnHand      |-> currentOnHand,
          projectedInventory |-> alerts[i].projectedInventory,
          date               |-> alerts[i].date,
          totalProduction    |->
            TotalProduction(UpToAlert(forecast, alerts[i].date)),
          totalDemand        |->
            TotalDemand(UpToAlert(forecast, alerts[i].date))]]

\* ------------------------------------------------------------------------
\* The alerts as a state machine: an enriched forecast arrives and is shown
\* with its alerts; Export Alerts writes the CSV.
\* ------------------------------------------------------------------------
MaxAlertPeriods == 2

ProjectedValues == {-10, 0, 5, 70}

SafetyStocks == {0, 10}

\* the last historical point, dated 2024-05-01: not enriched, or carrying
\* the fields of the projector as well
HistoricalTails ==
  {<<>>,
   <<[date |-> DateOf(2024, 5, 1), historical |-> 60, forecast |-> 60,
      isForecast |-> FALSE]>>,
   <<[date |-> DateOf(2024, 5, 1), historical |-> 60, forecast |-> 60,
      isForecast |-> FALSE, incomingProduction |-> 7,
      projectedInventory |-> -5, safetyStock |-> 10]>>}

\* a forecast period without the field incomingProduction, or with a
\* receipt
ForecastShapes ==
  {[forecast |-> f, projectedInventory |-> v] :
     f \in {0, 80}, v \in ProjectedValues}
  \cup {[forecast |-> f, projectedInventory |-> v, incomingProduction |-> 50] :
          f \in {0, 80}, v \in ProjectedValues}

\* the forecast periods of consecutive months from 2024-06-01 on
ForecastTail(shapes, safetyStock) ==
  [i \in 1..Len(shapes) |->
     shapes[i] @@ [date        |-> MonthDate(SupplyLastMonth + i),
                   isForecast  |-> TRUE,
                   safetyStock |-> safetyStock]]

AlertForecasts ==
  {tail \o ForecastTail(shapes, ss) :
     tail \in HistoricalTails, ss \in SafetyStocks,
     shapes \in UNION {[1..n -> ForecastShapes] : n \in 1..MaxAlertPeriods}}

InitAlerts ==
  /\ SessionIdle
  /\ tz = 0
  /\ historicalData = <<>>
  /\ args = NoArgs
  /\ results = <<>>
  /\ forecastValues = <<>>
  /\ effectiveHWMethod = "none"
  /\ pc = "idle"
  /\ BacktestIdle
  /\ MetricsIdle
  /\ inventory \in Inventories
  /\ productionPlans = <<>>
  /\ committedPlans = <<>>
  /\ shocks = <<>>
  /\ historicalDataEndDate = NoDate
  /\ committedHorizon = 0
  /\ skuLevelForecasts = <<>>
  /\ AlertsIdle
  /\ PortfolioIdle

\* a new enriched forecast arrives: inventoryAlerts is evaluated on it
ShowForecast ==
  /\ futureForecast = <<>>
  /\ futureForecast' \in AlertForecasts
  /\ inventoryAlerts' = InventoryAlerts(futureForecast')
  /\ UNCHANGED <<tz, sessionVars, forecasterVars, backtestVars, metricsVars, supplyVars,
                 exportedAlerts, portfolioVars>>

\* the Export Alerts button, shown when there are alerts
ExportAlerts ==
  /\ Len(inventoryAlerts) > 0
  /\ exportedAlerts = <<>>
  /\ exportedAlerts' =
       exportAlerts(futureForecast, CurrentOnHand(inventory, filterSkus))
  /\ UNCHANGED <<tz, sessionVars, forecasterVars, backtestVars, metricsVars, supplyVars,
                 futureForecast, inventoryAlerts, portfolioVars>>

NextAlerts == ShowForecast \/ ExportAlerts

SpecAlerts == InitAlerts /\ [][NextAlerts]_vars

\* ------------------------------------------------------------------------
\* App.tsx: the portfolio analysis over the per-item table skuLevelData:
\* ABC classes and volatility of the historical and of the forecast
\* window, the items that changed and the transition matrix. The
\* Classifier, runParetoAnalysis of utils/supplyChain.ts, is modelled from
\* its specification.
\* ------------------------------------------------------------------------
\* rows.sort((a, b) => b[key] - a[key]), a stable sort
SortDescBy(rows, key) ==
  LET n == Len(rows)
      Before(i, j) == \/ rows[i][key] > rows[j][key]
                      \/ rows[i][key] = rows[j][key] /\ i < j
      rank == [j \in 1..n |-> Cardinality({i \in 1..n : Before(i, j)}) + 1]
  IN  [k \in 1..n |-> rows[CHOOSE j \in 1..n : rank[j] = k]]

GradeOfUncapped(cumulative, total) ==
  IF total > 0 /\ cumulative * 100 <= 100 * total THEN "A"
  ELSE IF total > 0 /\ cumulative * 100 <= 95 * total THEN "B"
  ELSE "C"

\* the class of an item from the cumulative volume up to and including
\* it: A while the cumulative share is at most 80%, B while at most 95%,
\* C thereafter
GradeOf(cumulative, total) ==
  IF total > 0 /\ cumulative * 100 <= 80 * total THEN "A"
  ELSE IF total > 0 /\ cumulative * 100 <= 95 * total THEN "B"
  ELSE "C"

runParetoAnalysisBefore(items) ==
  LET sorted == SortDescBy(items, "totalVolume")
      volumes == [i \in 1..Len(sorted) |-> sorted[i].totalVolume]
      total == SumSeq(volumes)
  IN  [i \in 1..Len(sorted) |->
         [sku         |-> sorted[i].sku,
          totalVolume |-> sorted[i].totalVolume,
          grade       |-> GradeOf(SumRange(volumes, 1, i - 1), total)]]

\* runParetoAnalysis(items): the items sorted by descending volume with
\* their class
runParetoAnalysis(items) ==
  LET sorted == SortDescBy(items, "totalVolume")
      volumes == [i \in 1..Len(sorted) |-> sorted[i].totalVolume]
      total == SumSeq(volumes)
  IN  [i \in 1..Len(sorted) |->
         [sku         |-> sorted[i].sku,
          totalVolume |-> sorted[i].totalVolume,
          grade       |-> GradeOf(SumRange(volumes, 1, i), total)]]

\* committedSettings.filters.skus.length === 0 || ...skus.includes(sku)
MatchesSku(skus, sku) ==
  Len(skus) = 0 \/ \E i \in 1..Len(skus) : skus[i] = sku

\* paretoResults: the Classifier on the historical volumes
ParetoResults(table, skus) ==
  LET rows == SelectSeq(table, LAMBDA item : MatchesSku(skus, item.sku))
  IN  runParetoAnalysis([i \in 1..Len(rows) |->
                           [sku         |-> rows[i].sku,
                            totalVolume |-> rows[i].historicalVolume]])

\* forecastParetoResults: the Classifier on the forecast volumes of the
\* items of paretoResults and of skuLevelData
ForecastParetoResults(table, pareto, skus) ==
  LET extra == SelectSeq(table, LAMBDA item :
                 \A i \in 1..Len(pareto) : pareto[i].sku # item.sku)
      allSkus == [i \in 1..Len(pareto) |-> pareto[i].sku]
                 \o [i \in 1..Len(extra) |-> extra[i].sku]
      kept == SelectSeq(allSkus, LAMBDA sku : MatchesSku(skus, sku))
      VolumeOf(sku) ==
        LET found == {i \in 1..Len(table) : table[i].sku = sku}
        IN  IF found = {} THEN 0
            ELSE table[CHOOSE i \in found : \A j \in found : i <= j]
                   .forecastedVolume
  IN  runParetoAnalysis([i \in 1..Len(kept) |->
                           [sku |-> kept[i], totalVolume |-> VolumeOf(kept[i])]])

CoefficientOfVariationUnguarded(avg, stdDev) ==
  IF avg > 0 THEN MulI(Div(stdDev, avg), 100) ELSE Num(100)

\* avg > 0 ? (stdDev / avg) * 100 : 0
CoefficientOfVariation(avg, stdDev) ==
  IF avg > 0 THEN MulI(Div(stdDev, avg), 100) ELSE 0

\* the entry of skuVolatility for the quantities of one window
VolatilityOf(sku, quantities) ==
  LET avg == MeanOf(quantities)
      variance == DivI(SumSqDev(quantities, avg), Len(quantities))
      stdDev == Sqrt(variance)
  IN  [sku         |-> sku,
       volatility  |-> CoefficientOfVariation(avg, stdDev),
       avgQuantity |-> avg,
       stdDev      |-> stdDev]

\* volatilityResults (window "historicalMonthly") and
\* forecastVolatilityResults (window "forecastedMonthly"): the items with
\* a non-empty window, by descending volatility
VolatilityResults(table, skus, window) ==
  LET rows == SelectSeq(table, LAMBDA item :
                MatchesSku(skus, item.sku) /\ Len(item[window]) > 0)
  IN  SortDescBy([i \in 1..Len(rows) |->
                    VolatilityOf(rows[i].sku, rows[i][window])],
                 "volatility")

RiskOfTwoTiers(volatility) ==
  IF volatility > Num(50) THEN "High" ELSE "Low"

\* volatility > 50 ? 'High' : volatility > 30 ? 'Medium' : 'Low'
RiskOf(volatility) ==
  IF volatility > Num(50) THEN "High"
  ELSE IF volatility > Num(30) THEN "Medium"
  ELSE "Low"

NotFound == [sku |-> "none"]

\* list.find(p => p.sku === sku)
FindSku(list, sku) ==
  LET found == {i \in 1..Len(list) : list[i].sku = sku}
  IN  IF found = {} THEN NotFound
      ELSE list[CHOOSE i \in found : \A j \in found : i <= j]

\* x?.grade, and x?.grade || 'N/A'
GradeOrNA(item) == IF item = NotFound THEN "N/A" ELSE item.grade

RiskOrNA(item) == IF item = NotFound THEN "N/A" ELSE RiskOf(item.volatility)

\* the body of allSkus.forEach of portfolioChanges: the entry pushed for
\* the item, if any
ChangeOf(sku, pareto, forecastPareto, volatility, forecastVolatility) ==
  LET historicalPareto == FindSku(pareto, sku)
      forecastParetoItem == FindSku(forecastPareto, sku)
      historicalVolatility == FindSku(volatility, sku)
      forecastVolatilityItem == FindSku(forecastVolatility, sku)
      classChanged ==
        GradeOrNA(historicalPareto) # GradeOrNA(forecastParetoItem)
      volatilityRiskChanged ==
        /\ historicalVolatility # NotFound
        /\ forecastVolatilityItem # NotFound
        /\ RiskOf(historicalVolatility.volatility)
             # RiskOf(forecastVolatilityItem.volatility)
  IN  IF classChanged \/ volatilityRiskChanged
      THEN <<[sku             |-> sku,
              historicalClass |-> GradeOrNA(historicalPareto),
              forecastClass   |-> GradeOrNA(forecastParetoItem),
              classChange     |-> classChanged,
              historicalVolatilityRisk |-> RiskOrNA(historicalVolatility),
              forecastVolatilityRisk   |-> RiskOrNA(forecastVolatilityItem),
              volatilityChange |-> volatilityRiskChanged]>>
      ELSE <<>>

RECURSIVE Concat(_, _)
Concat(lists, k) ==
  IF k > Len(lists) THEN <<>> ELSE lists[k] \o Concat(lists, k + 1)

\* portfolioChanges
PortfolioChanges(pareto, forecastPareto, volatility, forecastVolatility) ==
  LET extra == SelectSeq(forecastPareto, LAMBDA item :
                 \A i \in 1..Len(pareto) : pareto[i].sku # item.sku)
      allSkus == [i \in 1..Len(pareto) |-> pareto[i].sku]
                 \o [i \in 1..Len(extra) |-> extra[i].sku]
  IN  Concat([i \in 1..Len(allSkus) |->
                ChangeOf(allSkus[i], pareto, forecastPareto, volatility,
                         forecastVolatility)], 1)

Grades == <<"A", "B", "C">>

\* x?.totalVolume || 0
VolumeOrZero(item) == IF item = NotFound THEN 0 ELSE item.totalVolume

TransitionAnyShift(from, to, changes, pareto, forecastPareto) ==
  LET skusInTransition ==
        SelectSeq(changes, LAMBDA c :
          c.historicalClass = from /\ c.forecastClass = to)
      volumeShift ==
        SumSeq([i \in 1..Len(skusInTransition) |->
                  VolumeOrZero(FindSku(forecastPareto, skusInTransition[i].sku))
                  - VolumeOrZero(FindSku(pareto, skusInTransition[i].sku))])
  IN  IF from # to /\ Len(skusInTransition) > 0
      THEN <<[from |-> from, to |-> to, count |-> Len(skusInTransition),
              volumeShift |-> volumeShift]>>
      ELSE <<>>

\* the body of the inner forEach of transformationMatrix: the entry pushed
\* for the pair (from, to), if any
Transition(from, to, changes, pareto, forecastPareto) ==
  LET skusInTransition ==
        SelectSeq(changes, LAMBDA c :
          c.historicalClass = from /\ c.forecastClass = to)
      volumeShift ==
        SumSeq([i \in 1..Len(skusInTransition) |->
                  VolumeOrZero(FindSku(forecastPareto, skusInTransition[i].sku))
                  - VolumeOrZero(FindSku(pareto, skusInTransition[i].sku))])
  IN  IF from # to /\ Len(skusInTransition) > 0 /\ volumeShift # 0
      THEN <<[from |-> from, to |-> to, count |-> Len(skusInTransition),
              volumeShift |-> volumeShift]>>
      ELSE <<>>

\* transformationMatrix
TransformationMatrix(changes, pareto, forecastPareto) ==
  Concat([k \in 1..(Len(Grades) * Len(Grades)) |->
            Transition(Grades[((k - 1) \div Len(Grades)) + 1],
                       Grades[((k - 1) % Len(Grades)) + 1],
                       changes, pareto, forecastPareto)], 1)

\* ------------------------------------------------------------------------
\* The portfolio analysis as a state machine: the per-item forecasts
\* arrive as the table skuLevelData, and the results that depend on it are
\* evaluated in the order of their declaration.
\* ------------------------------------------------------------------------
MaxMonths == 2

PortfolioItems == <<"P", "Q", "R">>

\* the monthly quantities of one window of an item
Window(profile, n) ==
  CASE profile = "none"   -> <<>>
    [] profile = "zero"   -> [i \in 1..n |-> 0]
    [] profile = "flat"   -> [i \in 1..n |-> 50]
    [] profile = "double" -> [i \in 1..n |-> 100]
    [] profile = "big"    -> [i \in 1..n |-> 400]
    [] profile = "medium" -> [i \in 1..n |-> IF i % 2 = 1 THEN 30 ELSE 70]
    [] profile = "high"   -> [i \in 1..n |-> IF i % 2 = 1 THEN 10 ELSE 90]

\* (historical window, forecast window) of an item: an item without
\* forecast has no historical points either; a month of the sample data or
\* of the forecast may be without demand; the historical window is empty
\* when every observation is older than the look-back
WindowProfiles ==
  {<<"none", "none">>}
  \cup ({"none", "zero", "flat", "double", "high", "big"}
        \X {"zero", "flat", "medium", "big"})

\* one row of skuLevelData
TableRow(sku, profile) ==
  LET historicalMonthly == Window(profile[1], MaxMonths)
      forecastedMonthly == Window(profile[2], MaxMonths)
  IN  [sku               |-> sku,
       historicalVolume  |-> SumSeq(historicalMonthly),
       forecastedVolume  |-> SumSeq(forecastedMonthly),
       historicalMonthly |-> historicalMonthly,
       forecastedMonthly |-> forecastedMonthly]

SkuTables ==
  {[i \in 1..Len(PortfolioItems) |-> TableRow(PortfolioItems[i], profiles[i])] :
     profiles \in [1..Len(PortfolioItems) -> WindowProfiles]}

PortfolioFilters == {<<>>, <<"P", "Q">>}

InitPortfolio ==
  /\ tz = 0
  /\ historicalData = <<>>
  /\ args = NoArgs
  /\ results = <<>>
  /\ forecastValues = <<>>
  /\ effectiveHWMethod = "none"
  /\ pc = "idle"
  /\ data = <<>>
  /\ filterSkus \in PortfolioFilters
  /\ forecastStartMonth = DefaultForecastStartMonth
  /\ marketAdj = 0
  /\ methodology = HOLT_WINTERS
  /\ uniqueSkus = <<>>
  /\ testWindow = NoWindow
  /\ skuIdx = 0
  /\ methodIdx = 0
  /\ trainData = <<>>
  /\ skuMethods = <<>>
  /\ skuMethodForecasts = <<>>
  /\ stage = <<>>
  /\ methodRows = <<>>
  /\ methodMetrics = <<>>
  /\ aggregatedMetrics = "null"
  /\ comparisonData = <<>>
  /\ qualityPageMetrics = "null"
  /\ qualityPageMethodRows = <<>>
  /\ qualityPageMethodMetrics = <<>>
  /\ bpc = "idle"
  /\ AnalysisIdle

\* skuLevelData changes: paretoResults, forecastParetoResults,
\* volatilityResults, forecastVolatilityResults, portfolioChanges and
\* transformationMatrix are evaluated again
AnalysePortfolio ==
  /\ skuLevelData = <<>>
  /\ skuLevelData' \in SkuTables
  /\ paretoResults' = ParetoResults(skuLevelData', filterSkus)
  /\ forecastParetoResults' =
       ForecastParetoResults(skuLevelData', paretoResults', filterSkus)
  /\ volatilityResults' =
       VolatilityResults(skuLevelData', filterSkus, "historicalMonthly")
  /\ forecastVolatilityResults' =
       VolatilityResults(skuLevelData', filterSkus, "forecastedMonthly")
  /\ portfolioChanges' =
       PortfolioChanges(paretoResults', forecastParetoResults',
                        volatilityResults', forecastVolatilityResults')
  /\ transformationMatrix' =
       TransformationMatrix(portfolioChanges', paretoResults',
                            forecastParetoResults')
  /\ UNCHANGED <<tz, sessionVars, forecasterVars, backtestVars, metricsVars, supplyVars,
                 alertVars>>

NextPortfolio == AnalysePortfolio

SpecPortfolio == InitPortfolio /\ [][NextPortfolio]_vars

\* ------------------------------------------------------------------------
\* Properties of the BacktestEngine
\* ------------------------------------------------------------------------
Skus == {SkuOrder[i] : i \in 1..Len(SkuOrder)}

\* the uploaded observations of an item
PointsOf(sku) == {i \in 1..Len(data) : data[i].sku = sku}

\* the first day of the holdout window: forecast start minus 12 months
HoldoutStart == MonthDate(MonthIdx(forecastStartMonth) - WindowMonths)

\* the observations of an item dated before the holdout start
TrainPointsOf(sku) ==
  {i \in PointsOf(sku) : DateLT(data[i].date, HoldoutStart)}

TooShort(sku) ==
  \/ Cardinality(PointsOf(sku)) < 18
  \/ Cardinality(TrainPointsOf(sku)) < 6

Selected(sku) == \E i \in 1..Len(uniqueSkus) : uniqueSkus[i] = sku

\* some row of the method's aggregation comes from the item
HasRow(rowsByMethod, method, sku) ==
  /\ method \in DOMAIN rowsByMethod
  /\ \E i \in 1..Len(rowsByMethod[method]) :
       rowsByMethod[method][i].sku = sku

\* C8: an item with fewer than 18 points, or fewer than 6 points before the
\* holdout start, is skipped: it contributes no (actual, forecast) row to
\* any method's aggregation and none of its pairs leaves Idle; the run
\* still returns, with metrics for every method computed from the rows of
\* the remaining eligible items.
C8_SkippedItems ==
  /\ \A s \in Skus :
       TooShort(s) =>
         /\ \A m \in MethodSet :
              /\ ~HasRow(methodRows, m, s)
              /\ ~HasRow(qualityPageMethodRows, m, s)
              /\ stage[<<s, m>>] = "Idle"
         /\ \A i \in 1..Len(skuMethodForecasts) : skuMethodForecasts[i].sku # s
  /\ (bpc = "returned" /\ \E e \in Skus : Selected(e) /\ ~TooShort(e)) =>
       \A m \in MethodSet :
         /\ m \in DOMAIN methodMetrics
         /\ \A e \in Skus :
              (Selected(e) /\ ~TooShort(e)) => HasRow(methodRows, m, e)

\* an item of 18 points with 5 training points is skipped, the other item
\* is scored by every method
C8_Witness ==
  /\ bpc = "returned"
  /\ \E s, e \in Skus :
       /\ Cardinality(PointsOf(s)) >= 18
       /\ Cardinality(TrainPointsOf(s)) < 6
       /\ Selected(s) /\ Selected(e) /\ ~TooShort(e)
       /\ \A m \in MethodSet :
            /\ HasRow(methodRows, m, e)
            /\ ~HasRow(methodRows, m, s)
            /\ m \in DOMAIN methodMetrics

\* the date lies in the most recent 6 months of the 12-month window
\* [forecast start - 12 months, forecast start - 1 month]
InRecentSixMonths(date) ==
  /\ MonthIdx(date) >= MonthIdx(forecastStartMonth) - 6
  /\ MonthIdx(date) <= MonthIdx(forecastStartMonth) - 1

\* C9: the per-method metrics are computed only from the pairs dated in the
\* most recent 6 months of the 12-month holdout window; no pair of the
\* earlier 6 months is scored.
C9_RecentSixMonths ==
  /\ \A m \in DOMAIN methodRows :
       \A i \in 1..Len(methodRows[m]) :
         InRecentSixMonths(methodRows[m][i].date)
  /\ \A m \in DOMAIN qualityPageMethodRows :
       \A i \in 1..Len(qualityPageMethodRows[m]) :
         InRecentSixMonths(qualityPageMethodRows[m][i].date)

\* the quantity of the item's observation in the month of fDate (the
\* earliest-dated one, in upload order, when the month has several), 0
\* when the item has no observation in that month
ExpectedActual(sku, fDate) ==
  LET obs == {i \in PointsOf(sku) :
                data[i].date.y = fDate.y /\ data[i].date.m = fDate.m}
  IN  IF obs = {} THEN 0
      ELSE data[CHOOSE i \in obs :
                  \A j \in obs :
                    \/ data[i].date.d < data[j].date.d
                    \/ data[i].date.d = data[j].date.d /\ i <= j].quantity

PairedAsExpected(sku, methods) ==
  \A m \in DOMAIN methods :
    /\ Len(methods[m].actuals) = Len(methods[m].dates)
    /\ Len(methods[m].forecasts) = Len(methods[m].dates)
    /\ \A i \in 1..Len(methods[m].dates) :
         methods[m].actuals[i] = ExpectedActual(sku, methods[m].dates[i])

\* C10: each forecast date of an item is paired with the quantity of that
\* item's observation whose normalized (first-of-month) date equals the
\* normalized forecast date, and with 0 when the item has no observation in
\* that month.
C10_ActualMatching ==
  /\ \A k \in 1..Len(skuMethodForecasts) :
       PairedAsExpected(skuMethodForecasts[k].sku, skuMethodForecasts[k].methods)
  /\ (bpc = "phase1" /\ methodIdx > 0) =>
       PairedAsExpected(uniqueSkus[skuIdx], skuMethods)

\* observations dated the 15th are matched to first-of-month forecast
\* dates, and a month of the window without observation is paired with 0
C10_Witness ==
  \E k \in 1..Len(skuMethodForecasts) :
    LET e == skuMethodForecasts[k]
    IN  \A m \in MethodSet :
          /\ \E i \in 1..Len(e.methods[m].dates) :
               /\ e.methods[m].actuals[i] = 0
               /\ InRecentSixMonths(e.methods[m].dates[i])
          /\ \E i \in 1..Len(e.methods[m].dates) :
               /\ e.methods[m].actuals[i] > 0
               /\ e.methods[m].dates[i].d = 1
               /\ \A j \in PointsOf(e.sku) : data[j].date.d # 1
\* the item has an entry in skuMethodForecasts
Forecast(sku) ==
  \E i \in 1..Len(skuMethodForecasts) : skuMethodForecasts[i].sku = sku

\* the item is the one Phase 1 is working on, its training split made
UnderWay(sku) ==
  /\ bpc = "phase1"
  /\ methodIdx >= 1
  /\ uniqueSkus[skuIdx] = sku
  /\ Len(trainData) >= MinTrainPoints

\* what the run holds for a pair in each state
StageHolds(sku, method) ==
  LET st == stage[<<sku, method>>]
  IN  /\ st = "Idle" => ~Forecast(sku) /\ ~UnderWay(sku)
      /\ st = "Trained" => UnderWay(sku) /\ method \notin DOMAIN skuMethods
      /\ st = "Forecasted" =>
            \/ UnderWay(sku) /\ method \in DOMAIN skuMethods
            \/ Forecast(sku) /\ method \notin DOMAIN methodMetrics
      /\ st = "Scored" => Forecast(sku) /\ HasRow(methodRows, method, sku)

StageStep(from, to) ==
  \/ to = from
  \/ from = "Idle" /\ to = "Trained"
  \/ from = "Trained" /\ to = "Forecasted"
  \/ from = "Forecasted" /\ to = "Scored"

\* C12: every (item, method) pair moves only along Idle -> Trained ->
\* Forecasted -> Scored, one state at a time and never backward: a pair is
\* Trained only while its item's training split exists, Forecasted only
\* once its forecast is stored, Scored only once its rows are in the
\* method's aggregation; the pairs of a skipped item stay Idle.
C12_StageOrder ==
  /\ [](\A s \in Skus : \A m \in MethodSet :
          /\ stage[<<s, m>>] \in {"Idle", "Trained", "Forecasted", "Scored"}
          /\ StageHolds(s, m)
          /\ TooShort(s) => stage[<<s, m>>] = "Idle")
  /\ [][\A pr \in Pairs : StageStep(stage[pr], stage'[pr])]_vars

\* the run returned with a pair scored and the pairs of a skipped, selected
\* item still Idle
C12_Witness ==
  /\ bpc = "returned"
  /\ \E s, e \in Skus :
       /\ Selected(s) /\ TooShort(s)
       /\ \A m \in MethodSet :
            stage[<<s, m>>] = "Idle" /\ stage[<<e, m>>] = "Scored"

\* ------------------------------------------------------------------------
\* Properties of the reported accuracy
\* ------------------------------------------------------------------------
\* max(0, min(100, (1 - |sum(actual) - sum(forecast)| / max(sum(actual), 1))
\* * 100)) of a list of pairs
StatedAccuracy(rows) ==
  LET sumActual == SumSeq([i \in 1..Len(rows) |-> rows[i].actual])
      sumForecast == SumSeq([i \in 1..Len(rows) |-> rows[i].forecast])
  IN  Max(0, Min(Num(100),
                 MulI(Num(1) - Div(Abs(sumActual - sumForecast),
                                   Max(sumActual, 1)), 100)))

InPercentRange(x) == 0 <= x /\ x <= Num(100)

\* the computations of the application that report an accuracy
Reporters == {"backtestResults", "worstSkus"}

\* the accuracy of the backtest bundle is the stated formula, in [0, 100]
BundleAccuracyAsStated ==
  reported.by = "backtestResults"
    => /\ reported.metrics.accuracy = StatedAccuracy(scoredPairs)
       /\ InPercentRange(reported.metrics.accuracy)

\* every reported accuracy lies in [0, 100]
ReportedAccuracyInRange ==
  reported.by \in Reporters => InPercentRange(reported.metrics.accuracy)

\* C11: every accuracy value reported for a list of matched pairs equals
\* max(0, min(100, (1 - |sum(actual) - sum(forecast)| / max(sum(actual), 1))
\* * 100)) and lies in [0, 100]
C11_AccuracyAsStated ==
  reported.by \in Reporters
    => /\ reported.metrics.accuracy = StatedAccuracy(scoredPairs)
       /\ InPercentRange(reported.metrics.accuracy)


\* ------------------------------------------------------------------------
\* Properties of the enriched per-item forecasts
\* ------------------------------------------------------------------------
HasEntry(map, sku) == \E i \in 1..Len(map) : map[i].sku = sku

\* map.get(sku)
EntryOf(map, sku) ==
  map[CHOOSE i \in 1..Len(map) : map[i].sku = sku].forecast

OfItem(rows, sku) == SelectSeq(rows, LAMBDA r : r.sku = sku)

\* the enriched forecast of the item when the rows, the on-hand quantities
\* and the receipts of every other item are taken away
OwnEntry(sku) ==
  EntryOf(SkuLevelForecasts(
            OfItem(data, sku), filterSkus,
            [SupplyConfig(OfItem(committedPlans, sku))
               EXCEPT !.inventory = OfItem(inventory, sku)]),
          sku)

\* a series without its safety stock and its reorder point
WithoutLevels(series) ==
  [i \in 1..Len(series) |->
     [f \in DOMAIN series[i] \ {"safetyStock", "reorderPoint"} |->
        series[i][f]]]

\* The forecast values, the receipts and the projected inventory of an
\* item's enriched forecast are those computed from the item's own rows,
\* receipts and on-hand quantity.
OwnForecastAndInventory ==
  \A x \in Skus :
    HasEntry(skuLevelForecasts, x) =>
      WithoutLevels(EntryOf(skuLevelForecasts, x)) = WithoutLevels(OwnEntry(x))

\* C13: when several items are forecast, the enriched forecast of each
\* item (forecast values, safety stock, reorder point, projected
\* inventory) is determined by the item's own observations, receipts,
\* on-hand quantity and the configuration alone: it is the one computed
\* with the data of every other item taken away.
C13_ItemsIndependent ==
  \A x \in Skus :
    HasEntry(skuLevelForecasts, x) =>
      EntryOf(skuLevelForecasts, x) = OwnEntry(x)


\* positions of the forecast periods of a series
ForecastPeriods(series) == {k \in 1..Len(series) : series[k].isForecast}

\* positions of the forecast periods dated on or before period k
PeriodsUpTo(series, k) ==
  {j \in ForecastPeriods(series) : DateLE(series[j].date, series[k].date)}

RECURSIVE SumOver(_, _)
SumOver(f, S) ==
  IF S = {} THEN 0
  ELSE LET j == CHOOSE i \in S : \A h \in S : i <= h
       IN  f[j] + SumOver(f, S \ {j})

SameMonth(a, b) == a.y = b.y /\ a.m = b.m

\* the sum of the committed receipts of the item in the calendar month of
\* `date`
MonthReceipts(sku, date) ==
  SumOver([i \in 1..Len(committedPlans) |-> committedPlans[i].quantity],
          {i \in 1..Len(committedPlans) :
             /\ committedPlans[i].sku = sku
             /\ SameMonth(committedPlans[i].date, date)})

\* the on-hand quantity uploaded for the item, 0 if there is none
StatedOnHand(sku) ==
  SumOver([i \in 1..Len(inventory) |-> inventory[i].onHand],
          {i \in 1..Len(inventory) : inventory[i].sku = sku})

\* on_hand - sum of demand of periods 1..k + sum of receipts of periods 1..k
StatedInventory(sku, series, k) ==
  StatedOnHand(sku)
  - SumOver([j \in 1..Len(series) |-> series[j].forecast],
            PeriodsUpTo(series, k))
  + SumOver([j \in 1..Len(series) |-> MonthReceipts(sku, series[j].date)],
            PeriodsUpTo(series, k))

CarriedInto(sku, series, k) ==
  LET before == {j \in ForecastPeriods(series) : j < k}
  IN  IF before = {} THEN StatedOnHand(sku)
      ELSE series[CHOOSE j \in before : \A h \in before : h <= j]
             .projectedInventory

\* what period k adds to the balance besides taking its demand off
AddedAt(sku, series, k) ==
  series[k].projectedInventory + series[k].forecast
  - CarriedInto(sku, series, k)

\* C18: a receipt is added to the projected inventory at the forecast
\* period whose calendar month is that of the receipt's date, and at no
\* other period: every forecast period adds exactly the receipts of its
\* item dated in its calendar month, whatever their day, and no two
\* forecast periods share a calendar month.
C18_ReceiptMonth ==
  \A x \in Skus :
    HasEntry(skuLevelForecasts, x) =>
      LET series == EntryOf(skuLevelForecasts, x)
      IN  \A k \in ForecastPeriods(series) :
            /\ AddedAt(x, series, k) = MonthReceipts(x, series[k].date)
            /\ series[k].incomingProduction = MonthReceipts(x, series[k].date)
            /\ \A j \in ForecastPeriods(series) :
                 j # k => ~SameMonth(series[j].date, series[k].date)

\* the receipt of 2024-06-15 is counted in the period dated 2024-06-01 and
\* in no other period
C18_Witness ==
  /\ committedPlans = <<PlanRow("A", DateOf(2024, 6, 15), 50)>>
  /\ HasEntry(skuLevelForecasts, "A")
  /\ LET series == EntryOf(skuLevelForecasts, "A")
     IN  /\ Cardinality(ForecastPeriods(series)) > 1
         /\ \A k \in ForecastPeriods(series) :
              AddedAt("A", series, k) =
                IF series[k].date = DateOf(2024, 6, 1) THEN 50 ELSE 0
         /\ \E k \in ForecastPeriods(series) :
              series[k].date = DateOf(2024, 6, 1)


\* ------------------------------------------------------------------------
\* Properties of the inventory alerts
\* ------------------------------------------------------------------------
\* the period dated `date` is shown as STOCKOUT RISK
StockoutCandidate(date) ==
  \E i \in 1..Len(inventoryAlerts) :
    inventoryAlerts[i].date = date /\ inventoryAlerts[i].isCritical

\* the period dated `date` is shown as SAFETY STOCK BREACH
BreachCandidate(date) ==
  \E i \in 1..Len(inventoryAlerts) :
    inventoryAlerts[i].date = date /\ ~inventoryAlerts[i].isCritical

Enriched(p) == "projectedInventory" \in DOMAIN p /\ "safetyStock" \in DOMAIN p

ForecastUpTo(date) ==
  {j \in 1..Len(futureForecast) :
     futureForecast[j].isForecast /\ DateLE(futureForecast[j].date, date)}

ProductionAt(j) ==
  IF "incomingProduction" \in DOMAIN futureForecast[j]
  THEN futureForecast[j].incomingProduction ELSE 0

Analysed == skuLevelData # <<>>

\* the items the analysis covers
Covered == {PortfolioItems[i] : i \in 1..Len(PortfolioItems)}

HasChange(sku) ==
  \E i \in 1..Len(portfolioChanges) : portfolioChanges[i].sku = sku

\* the row of skuLevelData of the item
RowOf(sku) == skuLevelData[CHOOSE i \in 1..Len(skuLevelData) :
                             skuLevelData[i].sku = sku]

\* the class of the item in a Classifier result, "N/A" if it has none
ClassIn(result, sku) == GradeOrNA(FindSku(result, sku))

\* the mean of the quantities of a window is 0
ZeroMean(quantities) ==
  Len(quantities) > 0 /\ SumSeq(quantities) = 0

\* C16: the coefficient of variation reported for an item is exactly 0
\* whenever the mean of the item's quantities is 0, in the volatility
\* results of the historical window and in those of the forecast window.
C16_ZeroMeanVolatility ==
  /\ \A i \in 1..Len(volatilityResults) :
       ZeroMean(RowOf(volatilityResults[i].sku).historicalMonthly)
         => volatilityResults[i].volatility = 0
  /\ \A i \in 1..Len(forecastVolatilityResults) :
       ZeroMean(RowOf(forecastVolatilityResults[i].sku).forecastedMonthly)
         => forecastVolatilityResults[i].volatility = 0

\* an item without demand in the historical window and an item whose
\* forecast is 0 throughout have volatility results
C16_Witness ==
  /\ \E i \in 1..Len(volatilityResults) :
       /\ ZeroMean(RowOf(volatilityResults[i].sku).historicalMonthly)
       /\ volatilityResults[i].avgQuantity = 0
  /\ \E i \in 1..Len(forecastVolatilityResults) :
       /\ ZeroMean(RowOf(forecastVolatilityResults[i].sku).forecastedMonthly)
       /\ forecastVolatilityResults[i].avgQuantity = 0


\* the sum of the squares of the quantities
SumOfSquares(quantities) ==
  SumSeq([i \in 1..Len(quantities) |-> quantities[i] * quantities[i]])

\* n^2 * variance of the quantities, in whole numbers
ScaledVariance(quantities) ==
  Len(quantities) * SumOfSquares(quantities)
  - SumSeq(quantities) * SumSeq(quantities)

\* the risk tier of a non-empty window, in whole numbers: CV > 50 is
\* variance > (0.5 * mean)^2, CV > 30 is variance > (0.3 * mean)^2, and
\* the CV of a window with mean 0 is 0
ExactRisk(quantities) ==
  LET square == SumSeq(quantities) * SumSeq(quantities)
  IN  IF 4 * ScaledVariance(quantities) > square THEN "High"
      ELSE IF 100 * ScaledVariance(quantities) > 9 * square THEN "Medium"
      ELSE "Low"

\* the risk tier of a window of an item, "N/A" without quantities
StatedRisk(quantities) ==
  IF Len(quantities) = 0 THEN "N/A" ELSE ExactRisk(quantities)

\* the ABC class of the item differs between the two windows
ClassDiffers(sku) ==
  ClassIn(paretoResults, sku) # ClassIn(forecastParetoResults, sku)

\* the items the analysis is run for
Analysable == {x \in Covered : Analysed /\ MatchesSku(filterSkus, x)}

\* C14 as stated: an entry is emitted for an item if and only if its ABC
\* tier differs between the two windows or its volatility risk tier
\* differs between the two windows.
C14_ChangedAsStated ==
  \A x \in Analysable :
    HasChange(x) <=>
      \/ ClassDiffers(x)
      \/ StatedRisk(RowOf(x).historicalMonthly)
           # StatedRisk(RowOf(x).forecastedMonthly)

\* C14: an entry is emitted for an item if and only if its ABC tier
\* differs between the two windows or the item has quantities in both
\* windows and its volatility risk tier (High if CV > 50, Medium if
\* CV > 30, else Low) differs between them; an item gets at most one
\* entry, and an item left out by the item filter gets none.
C14_ChangedEntries ==
  /\ \A x \in Analysable :
       HasChange(x) <=>
         \/ ClassDiffers(x)
         \/ /\ Len(RowOf(x).historicalMonthly) > 0
            /\ Len(RowOf(x).forecastedMonthly) > 0
            /\ ExactRisk(RowOf(x).historicalMonthly)
                 # ExactRisk(RowOf(x).forecastedMonthly)
  /\ \A x \in Covered \ Analysable : ~HasChange(x)
  /\ \A i, j \in 1..Len(portfolioChanges) :
       portfolioChanges[i].sku = portfolioChanges[j].sku => i = j

\* an item with the same class and a different risk tier has an entry, an
\* item with neither change has none, and an item without quantities in
\* the historical window and the same class has none
C14_Witness ==
  /\ \E x \in Analysable :
       /\ HasChange(x)
       /\ ~ClassDiffers(x)
       /\ ExactRisk(RowOf(x).historicalMonthly) = "Low"
       /\ ExactRisk(RowOf(x).forecastedMonthly) = "Medium"
  /\ \E x \in Analysable :
       /\ ~HasChange(x)
       /\ Len(RowOf(x).historicalMonthly) > 0
  /\ \E x \in Analysable :
       /\ ~HasChange(x)
       /\ Len(RowOf(x).historicalMonthly) = 0
       /\ StatedRisk(RowOf(x).forecastedMonthly) = "Medium"


\* the ABC classes
GradeSet == {Grades[i] : i \in 1..Len(Grades)}

\* the items that moved from one class to another
Moved(from, to) ==
  {x \in Analysable : /\ ClassIn(paretoResults, x) = from
                      /\ ClassIn(forecastParetoResults, x) = to}

\* forecast volume minus historical volume of the item
VolumeShiftOf(sku) ==
  RowOf(sku).forecastedVolume - RowOf(sku).historicalVolume

\* the net volume shift of the items that moved from one class to another
NetShift(from, to) ==
  SumSeq([i \in 1..Len(PortfolioItems) |->
            IF PortfolioItems[i] \in Moved(from, to)
            THEN VolumeShiftOf(PortfolioItems[i]) ELSE 0])

\* the entries of the transition matrix for a pair of classes
MatrixEntries(from, to) ==
  {i \in 1..Len(transformationMatrix) :
     transformationMatrix[i].from = from /\ transformationMatrix[i].to = to}

\* C15: the transition matrix has an entry for the ordered pair (from, to)
\* exactly when from differs from to and the net volume shift of the items
\* that moved from `from` to `to` is not zero; the entry is the only one of
\* the pair, its count is the number of those items and its shift is the
\* net shift; no entry has from equal to to.
C15_TransitionMatrix ==
  Analysed =>
    /\ \A from, to \in GradeSet :
         /\ MatrixEntries(from, to) # {} <=>
              from # to /\ NetShift(from, to) # 0
         /\ \A i \in MatrixEntries(from, to) :
              /\ MatrixEntries(from, to) = {i}
              /\ transformationMatrix[i].count = Cardinality(Moved(from, to))
              /\ transformationMatrix[i].volumeShift = NetShift(from, to)
    /\ \A i \in 1..Len(transformationMatrix) :
         /\ transformationMatrix[i].from # transformationMatrix[i].to
         /\ transformationMatrix[i].from \in GradeSet
         /\ transformationMatrix[i].to \in GradeSet

\* the matrix has an entry that counts two items, and the items of another
\* pair of classes moved with a net shift of zero and have no entry
C15_Witness ==
  /\ \E i \in 1..Len(transformationMatrix) : transformationMatrix[i].count = 2
  /\ \E from, to \in GradeSet :
       /\ from # to
       /\ Moved(from, to) # {}
       /\ NetShift(from, to) = 0
       /\ MatrixEntries(from, to) = {}


\* ------------------------------------------------------------------------
\* Properties of the Classifier
\* ------------------------------------------------------------------------
\* the two results of the Classifier
ClassifierResults == {paretoResults, forecastParetoResults}

\* the grand total of a result of the Classifier
GrandTotal(result) ==
  SumSeq([i \in 1..Len(result) |-> result[i].totalVolume])

\* the volume of the items of a result assigned class A
VolumeOfA(result) ==
  SumSeq([i \in 1..Len(result) |->
            IF result[i].grade = "A" THEN result[i].totalVolume ELSE 0])

\* the volume of the boundary item, the first item of a result in rank
\* order that is not of class A, 0 if every item is of class A
BoundaryVolume(result) ==
  LET others == {i \in 1..Len(result) : result[i].grade # "A"}
  IN  IF others = {} THEN 0
      ELSE result[CHOOSE i \in others : \A j \in others : i <= j].totalVolume

\* C21: for a Classifier input with positive total volume the share of the
\* grand total covered by the items of class A is at most 80% plus the
\* share of one boundary item.
C21_ClassACoverage ==
  \A result \in ClassifierResults :
    GrandTotal(result) > 0 =>
      100 * VolumeOfA(result)
        <= 80 * GrandTotal(result) + 100 * BoundaryVolume(result)

\* a result where class A covers exactly 80% and a result where the first
\* item alone is more than 80% of the total, so that no item is of class A
C21_Witness ==
  /\ Analysed
  /\ \E result \in ClassifierResults :
       /\ GrandTotal(result) > 0
       /\ 100 * VolumeOfA(result) = 80 * GrandTotal(result)
  /\ \E result \in ClassifierResults :
       /\ GrandTotal(result) > 0
       /\ VolumeOfA(result) = 0
       /\ Len(result) > 1

\* the result is that of two items with volumes 800 and 200
IsScenario(result) ==
  /\ Len(result) = 2
  /\ result[1].totalVolume = 800
  /\ result[2].totalVolume = 200

Ran(method) == Attempted /\ args.method = method

\* mean m and last observed value v of the training series
TrainedMean == MeanOf(TrainedValues)

TrainedLast == Num(TrainedValues[Len(TrainedValues)])

\* 0.85^k
RECURSIVE PowerOfCoefficient(_)
PowerOfCoefficient(k) ==
  IF k = 0 THEN Num(1) ELSE Mul(Dec(85, 100), PowerOfCoefficient(k - 1))

\* max(0, m + 0.85^k * (v - m))
MeanReversion(k) ==
  Max(0, TrainedMean + Mul(PowerOfCoefficient(k), TrainedLast - TrainedMean))

\* the forecast of step k, the last observed value for k = 0
ArimaAt(k) == IF k = 0 THEN TrainedLast ELSE forecastValues[k]

ObservationsAt(p) ==
  {j \in 1..Len(TrainedValues) : (j - 1) % SeasonLength = p}

\* the sum of value - series mean over the observations at position p
ResidualSumAt(p) ==
  SumSeq([j \in 1..Len(TrainedValues) |->
            IF j \in ObservationsAt(p)
            THEN Num(TrainedValues[j]) - TrainedMean ELSE 0])

\* the arithmetic mean of value - series mean over the observations at
\* cycle position p
MeanResidualAt(p) == DivI(ResidualSumAt(p), Cardinality(ObservationsAt(p)))

\* C24: in the Prophet-like method, for every training series of at least
\* 3 values, the seasonal offset of each cycle position that has training
\* observations is the arithmetic mean of value - series mean over exactly
\* the observations at that position.
C24_SeasonalOffsets ==
  Ran(PROPHET) =>
    \A p \in 0..(SeasonLength - 1) :
      ObservationsAt(p) # {} =>
        ProphetSeasonal(TrainedValues, p) = MeanResidualAt(p)


\* ------------------------------------------------------------------------
\* Properties of Run Analysis
\* ------------------------------------------------------------------------
\* C28: after every click on Run Analysis committedSettings.triggerToken is
\* truthy, so that once the analysis has run the view never goes back to
\* 'Engine Inactive' and the export buttons are never disabled again.
C28_StaysActive ==
  [][triggerToken' # triggerToken => Truthy(triggerToken')]_vars


\* ------------------------------------------------------------------------
\* App.tsx: handleFileUpload for a sales history ('hist'). reader.onload
\* splits the text into its non-empty lines and calls processChunk(1);
\* processChunk handles the lines of one chunk and schedules the next one
\* with requestAnimationFrame. The analyses that read `data` are evaluated
\* in the state machines above.
\* ------------------------------------------------------------------------
\* const chunkSize = 5000
ChunkSize == 5000

MaxUploads == 2

\* the numbers of non-empty lines (header included) of the long files:
\* around one and around two chunks
LongFileSizes ==
  {ChunkSize, ChunkSize + 1, ChunkSize + 2,
   2 * ChunkSize + 1, 2 * ChunkSize + 2}

\* the files chosen: without any line, with the header only, with one
\* row, with rows that share an item and a month, and long files
Files ==
  {[n |-> 0, kind |-> "empty"],
   [n |-> 1, kind |-> "header"],
   [n |-> 2, kind |-> "single"],
   [n |-> 5, kind |-> "duplicates"]}
  \cup {[n |-> k, kind |-> "long"] : k \in LongFileSizes}

\* a line that is no row: it holds no comma
NoRow == [comma |-> FALSE, sku |-> "", date |-> NoDate, quantity |-> 0]

\* a line 'category,sku,date,quantity'
RowLine(sku, date, quantity) ==
  [comma |-> TRUE, sku |-> sku, date |-> date, quantity |-> quantity]

\* the lines of a long file that are rows: the first and the last one and
\* those around the end of the first chunk; the other lines hold no comma
IsMarked(file, i) ==
  i \in {1, ChunkSize - 1, ChunkSize, ChunkSize + 1, file.n - 1}

\* line i of the file (lines[i], i >= 1), with its fields parsed
LineAt(file, i) ==
  CASE file.kind = "single" -> RowLine("A", DateOf(2024, 3, 10), 3)
    [] file.kind = "duplicates" ->
         (CASE i = 1 -> RowLine("A", DateOf(2024, 3, 5), 10)
            [] i = 2 -> RowLine("A", DateOf(2024, 3, 20), 5)
            [] i = 3 -> RowLine("B", DateOf(2024, 3, 5), 7)
            [] OTHER -> RowLine("B", DateOf(2024, 4, 5), 0))
    [] file.kind = "long" /\ IsMarked(file, i) ->
         RowLine("A",
                 DateOf(2020 + (i \div ChunkSize), 1 + (i % 12), 1 + (i % 28)),
                 1 + (i % 7))
    [] OTHER -> NoRow

\* the DataPoint of a line: its date is normalised to the month
DataPointOf(line) ==
  [date     |-> normalizeDateFormat(line.date),
   sku      |-> line.sku,
   quantity |-> line.quantity]

\* .filter(l => l.includes(',')) and .filter(d => d.sku && d.date &&
\* d.quantity > 0)
IsKept(line) ==
  line.comma /\ line.sku # "" /\ line.date # NoDate /\ line.quantity > 0

\* newData of the chunk lines.slice(startIdx, endIdx)
NewData(file, startIdx, endIdx) ==
  LET kept == {i \in startIdx..(endIdx - 1) : IsKept(LineAt(file, i))}
      Rank(i) == Cardinality({j \in kept : j <= i})
  IN  [k \in 1..Cardinality(kept) |->
         DataPointOf(LineAt(file, CHOOSE i \in kept : Rank(i) = k))]

\* const endIdx = Math.min(startIdx + chunkSize, lines.length)
EndIdx(file, startIdx) == Min(startIdx + ChunkSize, file.n)

NextStartSkipping(file, endIdx) == IF endIdx < file.n THEN endIdx + 1 ELSE 0

\* if (endIdx < lines.length) requestAnimationFrame(() =>
\* processChunk(endIdx)): the start of the chunk scheduled, 0 if none
NextStart(file, endIdx) == IF endIdx < file.n THEN endIdx ELSE 0

\* the number of the upload under way or last made
UploadsMade == IF chunkLog = <<>> THEN 0 ELSE chunkLog[Len(chunkLog)].upload

\* processChunk(startIdx) of upload number `upload`
ProcessChunk(file, upload, startIdx) ==
  LET endIdx == EndIdx(file, startIdx)
  IN  /\ data' = data \o NewData(file, startIdx, endIdx)
      /\ chunkLog' = Append(chunkLog, [upload   |-> upload,
                                       startIdx |-> startIdx,
                                       endIdx   |-> endIdx])
      /\ nextChunk' = NextStart(file, endIdx)

InitUpload ==
  /\ tz = 0
  /\ historicalData = <<>>
  /\ args = NoArgs
  /\ results = <<>>
  /\ forecastValues = <<>>
  /\ effectiveHWMethod = "none"
  /\ pc = "idle"
  /\ BacktestIdle
  /\ AnalysisIdle

\* reader.onload: the lines of the file chosen, and processChunk(1)
ReadFile ==
  /\ nextChunk = 0
  /\ UploadsMade < MaxUploads
  /\ \E file \in Files :
       /\ lines' = file
       /\ ProcessChunk(file, UploadsMade + 1, 1)
  /\ UNCHANGED <<tz, forecasterVars, filterSkus, forecastStartMonth,
                 marketAdj, methodology, uniqueSkus, testWindow, skuIdx,
                 methodIdx, trainData, skuMethods, skuMethodForecasts, stage,
                 methodRows, methodMetrics, aggregatedMetrics, comparisonData,
                 qualityPageMetrics, qualityPageMethodRows,
                 qualityPageMethodMetrics, bpc, metricsVars, supplyVars,
                 alertVars, portfolioVars, triggerToken>>

\* the callback of requestAnimationFrame: processChunk(endIdx)
NextChunk ==
  /\ nextChunk # 0
  /\ ProcessChunk(lines, UploadsMade, nextChunk)
  /\ UNCHANGED <<tz, forecasterVars, filterSkus, forecastStartMonth,
                 marketAdj, methodology, uniqueSkus, testWindow, skuIdx,
                 methodIdx, trainData, skuMethods, skuMethodForecasts, stage,
                 methodRows, methodMetrics, aggregatedMetrics, comparisonData,
                 qualityPageMetrics, qualityPageMethodRows,
                 qualityPageMethodMetrics, bpc, metricsVars, supplyVars,
                 alertVars, portfolioVars, triggerToken, lines>>

NextUpload == ReadFile \/ NextChunk

SpecUpload == InitUpload /\ [][NextUpload]_vars


\* ------------------------------------------------------------------------
\* Properties of the upload
\* ------------------------------------------------------------------------
\* the observations of an item handed to the Forecaster and to the
\* BacktestEngine
HandedToCore(sku) == SkuData(data, sku)

\* C25: after ingestion the observations handed to the core hold at most
\* one observation per item and calendar month: rows that share an item
\* and a month, within one upload or across uploads, are combined.
C25_OnePerItemAndMonth ==
  \A sku \in Skus :
    \A i, j \in 1..Len(HandedToCore(sku)) :
      SameMonth(HandedToCore(sku)[i].date, HandedToCore(sku)[j].date)
        => i = j

\* the processChunk calls of the upload under way or last made
ChunksOfUpload ==
  SelectSeq(chunkLog, LAMBDA c : c.upload = UploadsMade)

\* the lines handled by a processChunk call
HandledBy(chunk) == chunk.startIdx..(chunk.endIdx - 1)

\* no further chunk is scheduled
UploadDone == UploadsMade > 0 /\ nextChunk = 0

\* the rows of the whole file, in the order of its lines
RowsOfFile(file) ==
  LET kept == {i \in 1..(file.n - 1) : IsKept(LineAt(file, i))}
      Rank(i) == Cardinality({j \in kept : j <= i})
  IN  [k \in 1..Cardinality(kept) |->
         DataPointOf(LineAt(file, CHOOSE i \in kept : Rank(i) = k))]

\* C30: for a file of N non-empty lines the chunks handle the lines
\* 1..N-1 in increasing order, each exactly once, and never the header
\* (line 0); no chunk is scheduled after the one that holds the last line,
\* so the upload ends after ceil((N-1)/5000) chunks, one chunk for N <= 1;
\* the observations of the first upload are the rows of the file in the
\* order of its lines.
C30_ChunkedUpload ==
  UploadsMade > 0 =>
    LET chunks == ChunksOfUpload
        last == chunks[Len(chunks)]
    IN  /\ \A k \in 1..Len(chunks) :
             /\ 0 \notin HandledBy(chunks[k])
             /\ HandledBy(chunks[k]) \subseteq 1..(lines.n - 1)
             /\ k > 1 => /\ HandledBy(chunks[k - 1]) # {}
                         /\ chunks[k].startIdx = chunks[k - 1].endIdx
        /\ chunks[1].startIdx = 1 \/ HandledBy(chunks[1]) = {}
        /\ IF UploadDone
           THEN /\ \A i \in 1..(lines.n - 1) :
                     \E k \in 1..Len(chunks) : i \in HandledBy(chunks[k])
                /\ Len(chunks) = IF lines.n <= 1 THEN 1
                                 ELSE CeilDiv(lines.n - 1, ChunkSize)
                /\ UploadsMade = 1 => data = RowsOfFile(lines)
           ELSE /\ nextChunk = last.endIdx
                /\ lines.n - 1 \notin HandledBy(last)

\* an upload of 2 * 5000 + 1 rows has ended after three chunks, and the
\* rows of the last line of the first chunk and of the first line of the
\* second chunk are observations
C30_Witness ==
  /\ UploadDone
  /\ UploadsMade = 1
  /\ lines.n = 2 * ChunkSize + 2
  /\ Len(ChunksOfUpload) = 3
  /\ \E i, j \in 1..Len(data) :
       /\ i < j
       /\ data[i] = DataPointOf(LineAt(lines, ChunkSize))
       /\ data[j] = DataPointOf(LineAt(lines, ChunkSize + 1))

\* ------------------------------------------------------------------------
\* Properties of the confidence band of the delivered series
\* ------------------------------------------------------------------------

\* every committed shock is one handleAddShock accepts: -75..100, not 0
ShocksInRange ==
  \A k \in 1..Len(shocks) :
    /\ shocks[k].percentageChange >= -75
    /\ shocks[k].percentageChange <= 100
    /\ shocks[k].percentageChange # 0

\* C26: for every forecast point of every per-item series delivered to
\* display and export, after the market-trend multiplier and the market
\* shocks (each between -75% and +100%) have been applied,
\* lowerBound <= forecast <= upperBound.
C26_BandEnclosesForecast ==
  ShocksInRange =>
    \A x \in Skus :
      HasEntry(skuLevelForecasts, x) =>
        LET series == EntryOf(skuLevelForecasts, x)
        IN  \A k \in ForecastPeriods(series) :
              /\ series[k].lowerBound <= series[k].forecast
              /\ series[k].forecast <= series[k].upperBound

\* ------------------------------------------------------------------------
\* Properties of the backtest forecast dates
\* ------------------------------------------------------------------------

\* the calendar months of the holdout window: forecast start minus 12
\* months up to forecast start minus 1 month
HoldoutMonths ==
  {MonthIdx(forecastStartMonth) - j : j \in 1..WindowMonths}

\* the calendar months of the forecast dates generated for an item by a
\* method
ForecastMonths(entry, method) ==
  {MonthIdx(entry.methods[method].dates[i]) :
     i \in 1..Len(entry.methods[method].dates)}

\* C27: for every item that passes the backtest eligibility (at least 18
\* points, at least 6 training points before the holdout start), the 13
\* forecast dates generated for each method include every calendar month
\* of the 12-month holdout window, whatever gaps the training data has.
C27_HoldoutCovered ==
  \A i \in 1..Len(skuMethodForecasts) :
    \A method \in DOMAIN skuMethodForecasts[i].methods :
      HoldoutMonths \subseteq ForecastMonths(skuMethodForecasts[i], method)

\* the same in a browser running in UTC
C27_HoldoutCoveredUTC == tz = 0 => C27_HoldoutCovered

\* ------------------------------------------------------------------------
\* Properties of calculateMetrics on degenerate inputs
\* ------------------------------------------------------------------------
MetricFields == {"mape", "rmse", "bias", "mad", "accuracy"}

\* C29: calculateMetrics returns finite values (neither NaN nor Infinity)
\* for mape, rmse, bias, mad and accuracy for every pair of arrays of
\* non-negative numbers, empty arrays and non-empty arrays whose actual
\* values sum to 0 included.
C29_FiniteMetrics ==
  reported.by \in {"worstSkus", "calculateMetrics"} =>
    \A f \in MetricFields : IsFinite(reported.metrics[f])

\* the part that holds: empty arrays, and arrays whose actual values do
\* not sum to 0
FiniteOffZeroSum ==
  /\ reported.by \in {"worstSkus", "calculateMetrics"}
  /\ \/ Len(scoredPairs) = 0
     \/ \E i \in 1..Len(scoredPairs) : scoredPairs[i].actual # 0
  => \A f \in MetricFields : IsFinite(reported.metrics[f])

====
